---- MODULE Spec2Model ----
(***************************************************************************)
(* A model of the dev-utils script runner: the parameter binder and the    *)
(* process launcher of executeScript (server/executor.ts), the stream      *)
(* multiplexer, the server-sent-event relay of the HTTP server, the         *)
(* execution ledger of server/logger.ts, the annotation parser of          *)
(* server/parser.ts and the browser runner (ScriptTerminal.vue).           *)
(*                                                                         *)
(* The specifications share the variables:                                 *)
(*   SpecBind      the argument building of executeScript as a function;   *)
(*   SpecLog       logExecution / trimLogFile with overlapping cycles;     *)
(*   Spec          the HTTP server and one execution, end to end;          *)
(*   SpecLive      Spec with the progress of start() and of the relay;     *)
(*   SpecFail      Spec with a log file whose append and trim may fail;    *)
(*   SpecIo        Spec with reads that may fail;                          *)
(*   SpecHttp      the routes under any sequence of requests;              *)
(*   SpecExec      executeScript called directly, its stream cancellable;  *)
(*   SpecExecLive  the same with the progress of the loops and of kill;    *)
(*   SpecPair      two calls of executeScript running at the same time;    *)
(*   SpecDiscover  discovery passes over a directory of annotated files;   *)
(*   SpecRefresh   loadScripts step by step, refreshes overlapping;        *)
(*   SpecLaunch    requests for the files of a discovered directory;       *)
(*   SpecParse     parseParam on the text of an @param tag;                *)
(*   SpecTerm      the browser runner under Run and Stop clicks.           *)
(***************************************************************************)
EXTENDS Integers, Sequences, FiniteSets, TLC

\* ------------------------------------------------------------------------
\* Bounds of the model
\* ------------------------------------------------------------------------
MaxParams == 2

MaxCycles == 2

\* The retention ceiling of the ledger. logger.ts sets 35000; the model keeps
\* the ceiling a few lines above the length of the shortest entry (8 lines),
\* so that one entry fits, two do not, and an entry alone can exceed it.
MAX_LINES == 10

\* The number of /api/scripts requests (refreshes of the script cache)
MaxPasses == 2

\* The number of clicks on Run in the browser runner
MaxRuns == 2

\* ------------------------------------------------------------------------
\* JavaScript values that a parameter mapping can carry (JSON body values)
\* ------------------------------------------------------------------------
Undefined == [t |-> "undefined", n |-> 0, s |-> "", b |-> FALSE]

Null == [t |-> "null", n |-> 0, s |-> "", b |-> FALSE]

Str(s) == [t |-> "string", n |-> 0, s |-> s, b |-> FALSE]

Num(n) == [t |-> "number", n |-> n, s |-> "", b |-> FALSE]

Bool(b) == [t |-> "boolean", n |-> 0, s |-> "", b |-> b]

JsValues == {Null, Str(""), Str("Ada"), Num(0), Num(42), Bool(FALSE), Bool(TRUE)}

\* String(value) of JavaScript for the values above
JsString(v) ==
  CASE v.t = "string" -> v.s
    [] v.t = "number" -> ToString(v.n)
    [] v.t = "boolean" -> IF v.b THEN "true" ELSE "false"
    [] v.t = "null" -> "null"
    [] OTHER -> "undefined"

\* params[name] : a key that is not in the mapping reads as undefined
Lookup(params, name) == IF name \in DOMAIN params THEN params[name] ELSE Undefined

\* value === undefined || value === null || value === ''
IsMissingLoose(value) ==
  value.t \in {"undefined", "null"} \/ value = Str("") \/ value = Num(0) \/ value = Bool(FALSE)

IsMissing(value) == value.t \in {"undefined", "null"} \/ value = Str("")

\* ------------------------------------------------------------------------
\* executeScript, argument building (the loop over script.params)
\* ------------------------------------------------------------------------
Thrown(msg) == [ok |-> FALSE, args |-> <<>>, error |-> msg]

Returned(args) == [ok |-> TRUE, args |-> args, error |-> <<>>]

MissingError(name) == <<"Required parameter '", name, "' is missing">>

RECURSIVE BuildArgsFrom(_, _, _, _)
BuildArgsFrom(scriptParams, params, i, args) ==
  IF i > Len(scriptParams) THEN Returned(args)
  ELSE LET param == scriptParams[i]
           value == Lookup(params, param.name)
       IN IF param.required /\ IsMissing(value)
          THEN Thrown(MissingError(param.name))
          ELSE IF ~IsMissing(value)
               THEN BuildArgsFrom(scriptParams, params, i + 1, Append(args, JsString(value)))
               ELSE BuildArgsFrom(scriptParams, params, i + 1, args)

\* The loop without its test of required parameters
BuildArgsUnchecked(scriptParams, params) ==
  Returned(SelectSeq([i \in 1..Len(scriptParams) |->
                       IF IsMissing(Lookup(params, scriptParams[i].name)) THEN ""
                       ELSE JsString(Lookup(params, scriptParams[i].name))],
                     LAMBDA a : a # ""))

BuildArgsUnordered(scriptParams, params) ==
  LET r == BuildArgsFrom(scriptParams, params, 1, <<>>)
  IN IF r.ok /\ Len(r.args) > 1
     THEN Returned(<<r.args[Len(r.args)]>> \o SubSeq(r.args, 1, Len(r.args) - 1))
     ELSE r

BuildArgs(scriptParams, params) == BuildArgsFrom(scriptParams, params, 1, <<>>)

\* ------------------------------------------------------------------------
\* Text: a string is a sequence of tokens, the line feed being one of them
\* ------------------------------------------------------------------------
NL == "\n"

\* text.split('\n')
\* The lines of text[lo..hi]: those of its two halves, the last line of the
\* first half continuing in the first line of the second
RECURSIVE SplitRange(_, _, _)
SplitRange(text, lo, hi) ==
  IF lo > hi THEN << <<>> >>
  ELSE IF lo = hi
       THEN (IF text[lo] = NL THEN << <<>>, <<>> >> ELSE << <<text[lo]>> >>)
       ELSE LET mid == (lo + hi) \div 2
                left == SplitRange(text, lo, mid)
                right == SplitRange(text, mid + 1, hi)
            IN SubSeq(left, 1, Len(left) - 1)
                 \o << left[Len(left)] \o right[1] >>
                 \o Tail(right)

Split(text) == SplitRange(text, 1, Len(text))

\* lines.join('\n')
RECURSIVE Join(_)
Join(lines) ==
  IF lines = <<>> THEN <<>>
  ELSE IF Len(lines) = 1 THEN lines[1]
       ELSE lines[1] \o <<NL>> \o Join(Tail(lines))

\* seq.slice(-n), n > 0
\* A slice that keeps one element too many
SliceLastOffByOne(seq, n) == IF Len(seq) <= n THEN seq ELSE SubSeq(seq, Len(seq) - n, Len(seq))

SliceLast(seq, n) == IF Len(seq) <= n THEN seq ELSE SubSeq(seq, Len(seq) - n + 1, Len(seq))

\* ------------------------------------------------------------------------
\* logger.ts: logExecution and trimLogFile
\* ------------------------------------------------------------------------
EQ80 == "================"

DASH80 == "----------------"

Timestamp == "2026-01-01T00:00:00.000Z"

KeyOrder == <<"name", "excited", "extra">>

JsonValue(v) ==
  CASE v.t = "string" -> <<"\"", v.s, "\"">>
    [] v.t = "number" -> <<ToString(v.n)>>
    [] v.t = "boolean" -> <<IF v.b THEN "true" ELSE "false">>
    [] OTHER -> <<"null">>

RECURSIVE JsonMembers(_, _, _)
JsonMembers(params, i, first) ==
  IF i > Len(KeyOrder) THEN <<>>
  ELSE IF KeyOrder[i] \in DOMAIN params /\ params[KeyOrder[i]].t # "undefined"
       THEN (IF first THEN <<>> ELSE <<",">>)
              \o <<"\"", KeyOrder[i], "\"", ":">> \o JsonValue(params[KeyOrder[i]])
              \o JsonMembers(params, i + 1, FALSE)
       ELSE JsonMembers(params, i + 1, first)

\* JSON.stringify(params)
JsonStringify(params) == <<"{">> \o JsonMembers(params, 1, TRUE) \o <<"}">>

\* exitCode ?? 'N/A'
ExitCodeOrNA(exitCode) == IF exitCode.t \in {"undefined", "null"} THEN "N/A" ELSE JsString(exitCode)

\* logLines of logExecution
LogLines(scriptName, params, output, exitCode) ==
  << <<>>,
     <<EQ80>>,
     <<"[", Timestamp, "] Executed: ", scriptName>>,
     <<"Parameters: ">> \o JsonStringify(params),
     <<"Exit Code: ", ExitCodeOrNA(exitCode)>>,
     <<DASH80>> >>
  \o output
  \o << <<EQ80>>, <<>> >>

\* logContent of logExecution
LogContent(scriptName, params, output, exitCode) ==
  Join(LogLines(scriptName, params, output, exitCode))

\* An invocation that misses the last element of the transcript
NewCycleMissingLast(scriptName, params, output, exitCode) ==
  [pc |-> "append",
   logContent |-> LogContent(scriptName, params, SubSeq(output, 1, Len(output) - 1), exitCode),
   trimmed |-> <<>>,
   failed |-> FALSE,
   rejected |-> FALSE]

\* One invocation of logExecution: the content it built and where it stands
NewCycle(scriptName, params, output, exitCode) ==
  [pc |-> "append",
   logContent |-> LogContent(scriptName, params, output, exitCode),
   trimmed |-> <<>>,
   failed |-> FALSE,
   rejected |-> FALSE]

\* What trimLogFile decides after reading `content`
NeedsTrim(content) == Len(Split(content)) > MAX_LINES

Trimmed(content) == Join(SliceLast(Split(content), MAX_LINES))

\* ------------------------------------------------------------------------
\* parser.ts: the scripts directory and discoverScripts
\* ------------------------------------------------------------------------
\* A file of the scripts directory: its name (base and extension) and what its
\* annotations give (name, description, category and context are "" when the
\* file has no such tag; context is the tag's value, valid or not).
HelloFile ==
  [fileName |-> <<"hello", ".sh">>,
   name |-> "Hello World",
   description |-> "Greets someone",
   category |-> "",
   context |-> "",
   params |-> << [name |-> "name", type |-> "string", required |-> TRUE],
                 [name |-> "excited", type |-> "boolean", required |-> FALSE] >>]

NotesFile ==
  [fileName |-> <<"notes", ".md">>,
   name |-> "Notes",
   description |-> "Not a script",
   category |-> "docs",
   context |-> "browser",
   params |-> <<>>]

AllFiles == {HelloFile, NotesFile}

\* file.endsWith(ext)
EndsWith(fileName, ext) == fileName # <<>> /\ fileName[Len(fileName)] = ext

\* A pass that skips no file
IsAnyFile(fileName) == fileName # <<>>

IsScriptFile(fileName) ==
  EndsWith(fileName, ".sh") \/ EndsWith(fileName, ".js") \/ EndsWith(fileName, ".ts")

\* join(scriptsDir, file)
FilePath(fileName) == <<"scripts/">> \o fileName

\* A validation that asks for the name only
HasName(file) == file.name # ""

\* parseScriptMetadata: null unless both name and description were found
HasMetadata(file) == file.name # "" /\ file.description # ""

ScriptMetadata(file) ==
  [name |-> file.name,
   description |-> file.description,
   params |-> file.params,
   category |-> IF file.category = "" THEN "uncategorized" ELSE file.category,
   context |-> IF file.context \in {"terminal", "browser"} THEN file.context ELSE "terminal",
   filePath |-> FilePath(file.fileName),
   fileName |-> file.fileName]

DiscoverScripts(dir) ==
  {ScriptMetadata(file) : file \in {f \in dir : IsScriptFile(f.fileName) /\ HasMetadata(f)}}

\* ------------------------------------------------------------------------
\* index.ts: the /api/execute/ route
\* ------------------------------------------------------------------------
ExecutePrefix == "/api/execute/"

\* url.pathname.split('/api/execute/')[1], on the part of the path that follows
\* the first '/api/execute/': what precedes the next occurrence of it
RECURSIVE UpToPrefix(_, _)
UpToPrefix(rest, i) ==
  IF i > Len(rest) \/ rest[i] = ExecutePrefix THEN SubSeq(rest, 1, i - 1)
  ELSE UpToPrefix(rest, i + 1)

ScriptNameOf(rest) == UpToPrefix(rest, 1)

\* scriptsCache.find(s => s.fileName === scriptName)
FindScript(cache, scriptName) == {s \in cache : s.fileName = scriptName}

\* The command line of the child, by file extension; no command line for
\* any other extension
CommandLine(script, args) ==
  IF EndsWith(script.fileName, ".sh") THEN <<"bash">> \o script.filePath \o args
  ELSE IF EndsWith(script.fileName, ".js") THEN <<"bun", "run">> \o script.filePath \o args
  ELSE IF EndsWith(script.fileName, ".ts") THEN <<"bun", "run">> \o script.filePath \o args
  ELSE <<>>

\* error.message of the error thrown for any other extension
UnsupportedError(fileName) == <<"Unsupported script type: ">> \o fileName

\* ------------------------------------------------------------------------
\* executor.ts: TextDecoder.decode(value, { stream: true })
\* ------------------------------------------------------------------------
\* Bytes are tokens: "C3" leads a two-byte character, "A9" continues one, any
\* other token is a run of ASCII bytes. "U+00E9" is the character C3 A9 and
\* "U+FFFD" the replacement character.
RECURSIVE DecodeFrom(_, _, _, _)
DecodeFrom(bytes, i, pending, text) ==
  IF i > Len(bytes) THEN [text |-> text, pending |-> pending]
  ELSE LET b == bytes[i]
       IN IF pending # <<>>
          THEN IF b = "A9"
               THEN DecodeFrom(bytes, i + 1, <<>>, Append(text, "U+00E9"))
               ELSE DecodeFrom(bytes, i, <<>>, Append(text, "U+FFFD"))
          ELSE IF b = "C3" THEN DecodeFrom(bytes, i + 1, <<b>>, text)
               ELSE IF b = "A9" THEN DecodeFrom(bytes, i + 1, <<>>, Append(text, "U+FFFD"))
                    ELSE DecodeFrom(bytes, i + 1, <<>>, Append(text, b))

Decode(pending, bytes) == DecodeFrom(bytes, 1, pending, <<>>)

StderrTag == "[stderr] "

\* The chunk text of a decoded fragment
ChunkText(fd, text) == IF fd = "err" THEN <<StderrTag>> \o text ELSE text

\* proc.exitCode || 0
OrZero(exitCode) == IF exitCode.t = "number" /\ exitCode.n # 0 THEN exitCode ELSE Num(0)

ExitMessageOrZero(exitCode) ==
  <<NL, "[Process exited with code ", JsString(OrZero(exitCode)), "]", NL>>

ExitMessage(exitCode) == <<NL, "[Process exited with code ", JsString(exitCode), "]", NL>>

EnqueueTypeError == "TypeError: Invalid state: Controller is already closed"

ErrorMessage(error) == <<NL, "[Error: ", error, "]", NL>>

KilledNotice == <<"[Process killed by user]">>

\* ------------------------------------------------------------------------
\* ReadableStream with a default controller, as executeScript uses it:
\* state, queue, close request, and the consumer's outstanding read request.
\* inbox is the result of the consumer's read once it is resolved.
\* ------------------------------------------------------------------------
NoInbox == [kind |-> "none", value |-> <<>>]

ChunkInbox(text) == [kind |-> "chunk", value |-> text]

DoneInbox == [kind |-> "done", value |-> <<>>]

\* The read rejected with the error the stream is errored with
ErrorInbox(error) == [kind |-> "error", value |-> <<error>>]

NoStream == [state |-> "none", queue |-> <<>>, closeRequested |-> FALSE, pendingRead |-> FALSE]

NewStream == [state |-> "readable", queue |-> <<>>, closeRequested |-> FALSE, pendingRead |-> FALSE]

\* String(error) of the error a chunk stream is errored with
StreamFailure == "Error: stream failed"

\* controller.enqueue and controller.close throw unless this holds
CanEnqueue(st) == st.state = "readable" /\ ~st.closeRequested

\* An enqueue that puts the chunk at the head of the queue
EnqueueFront(st, ib, text) ==
  IF st.pendingRead
  THEN [stream |-> [st EXCEPT !.pendingRead = FALSE], inbox |-> ChunkInbox(text)]
  ELSE [stream |-> [st EXCEPT !.queue = <<text>> \o @], inbox |-> ib]

\* controller.enqueue(text): handed to the outstanding read, else queued
Enqueue(st, ib, text) ==
  IF st.pendingRead
  THEN [stream |-> [st EXCEPT !.pendingRead = FALSE], inbox |-> ChunkInbox(text)]
  ELSE [stream |-> [st EXCEPT !.queue = Append(@, text)], inbox |-> ib]

\* controller.close(): the stream closes once its queue is empty
CloseStreamForgotten(st, ib) == [stream |-> st, inbox |-> ib]

CloseStream(st, ib) ==
  IF st.queue = <<>>
  THEN [stream |-> [st EXCEPT !.closeRequested = TRUE, !.state = "closed", !.pendingRead = FALSE],
        inbox |-> IF st.pendingRead THEN DoneInbox ELSE ib]
  ELSE [stream |-> [st EXCEPT !.closeRequested = TRUE], inbox |-> ib]

\* reader.read(); on an errored stream the read rejects
ReadCall(st) ==
  IF st.state = "errored" THEN [stream |-> st, inbox |-> ErrorInbox(StreamFailure)]
  ELSE IF st.queue # <<>>
  THEN [stream |-> [st EXCEPT !.queue = Tail(@),
                              !.state = IF st.closeRequested /\ Len(st.queue) = 1
                                        THEN "closed" ELSE @],
        inbox |-> ChunkInbox(Head(st.queue))]
  ELSE IF st.state = "closed"
       THEN [stream |-> st, inbox |-> DoneInbox]
       ELSE [stream |-> [st EXCEPT !.pendingRead = TRUE], inbox |-> NoInbox]

\* reader.cancel() reaches the underlying source's cancel() unless the stream
\* is already closed
CancelReachesSource(st) == st.state = "readable"

\* ------------------------------------------------------------------------
\* index.ts: the server-sent events of the relay
\* ------------------------------------------------------------------------
\* JSON.stringify of one character of a string
JsonEscape(char) ==
  CASE char = NL -> "\\n"
    [] char = "\"" -> "\\\""
    [] OTHER -> char

\* A string written between quotes with nothing escaped
JsonQuoteRaw(text) == <<"\"">> \o text \o <<"\"">>

\* JSON.stringify of a string
JsonQuote(text) == <<"\"">> \o [i \in 1..Len(text) |-> JsonEscape(text[i])] \o <<"\"">>

\* `data: ${JSON.stringify({ output: value })}\n\n`
SseOutput(text) == <<"data: ", "{", "\"output\"", ":">> \o JsonQuote(text) \o <<"}", NL, NL>>

\* `data: ${JSON.stringify({ done: true })}\n\n`
SseDone == <<"data: ", "{", "\"done\"", ":", "true", "}", NL, NL>>

\* What the relay enqueues on sseStream: type and text say what was framed,
\* data is the framed message
OutputEvent(text) == [type |-> "output", text |-> text, data |-> SseOutput(text)]

DoneEvent == [type |-> "done", text |-> <<>>, data |-> SseDone]

\* `data: ${JSON.stringify({ error: String(error) })}\n\n`
SseError(error) == <<"data: ", "{", "\"error\"", ":">> \o JsonQuote(error) \o <<"}", NL, NL>>

ErrorEvent(error) == [type |-> "error", text |-> error, data |-> SseError(error)]

\* A catch block that closes sseStream without a message
RelayCatchSilent(s, error) == [s EXCEPT !.state = "closed", !.pc = "caught"]

\* catch (error) of sseStream.start(): the error message is enqueued and
\* sseStream closed
RelayCatch(s, error) ==
  [s EXCEPT !.sent = Append(@, ErrorEvent(error)), !.state = "closed", !.pc = "caught"]

\* ------------------------------------------------------------------------
\* The child process: what the script does, as a list of operations
\* ------------------------------------------------------------------------
Write(fd, bytes) == [op |-> "write", fd |-> fd, bytes |-> bytes, code |-> 0]

Exit(code) == [op |-> "exit", fd |-> "out", bytes |-> <<>>, code |-> code]

Signalled == [op |-> "signal", fd |-> "out", bytes |-> <<>>, code |-> 0]

\* How a process ended, and proc.exitCode for it: the number the process
\* exited with, null when a signal ended it
Running == [how |-> "running", code |-> 0]

ExitedWith(code) == [how |-> "exit", code |-> code]

EndedBySignal == [how |-> "signal", code |-> 0]

\* An exit code that is never known
ExitCodeUnknown(ended) == Null

ExitCodeOf(ended) == IF ended.how = "exit" THEN Num(ended.code) ELSE Null

\* greets and exits 0; writes a two-byte character in two writes; fails with a
\* message on stderr; is terminated by a signal (no numeric exit code); prints
\* and then runs until it is killed; writes to both streams in turn.
Programs ==
  { <<Write("out", <<"Hello, Ada!", NL>>), Exit(0)>>,
    <<Write("out", <<"caf", "C3">>), Write("out", <<"A9", NL>>), Exit(0)>>,
    <<Write("err", <<"oops", NL>>), Write("out", <<"bye", NL>>), Exit(1)>>,
    <<Signalled>>,
    <<Write("out", <<"listening", NL>>)>>,
    <<Write("out", <<"one", NL>>), Write("err", <<"warn", NL>>),
      Write("out", <<"two", NL>>), Write("err", <<"late", NL>>), Exit(0)>> }

NoProc ==
  [state |-> "none", cmd |-> <<>>, program |-> <<>>, ended |-> Running, exitCode |-> Null,
   killed |-> FALSE, scriptName |-> "", params |-> <<>>]

NoPipes == [out |-> [buf |-> <<>>, eof |-> FALSE], err |-> [buf |-> <<>>, eof |-> FALSE]]

NoReaders == [out |-> [pc |-> "none", pending |-> <<>>], err |-> [pc |-> "none", pending |-> <<>>]]

\* ------------------------------------------------------------------------
\* State
\* ------------------------------------------------------------------------
VARIABLES
  bindParamsDecl,  \* SpecBind: script.params of the call
  bindParams,      \* SpecBind: the params mapping of the call
  bindResult,      \* SpecBind: what the argument building returned or threw
  bindPc,          \* SpecBind: "call" before the loop ran, "done" after
  logFile,         \* logs/scripts.log: whether it exists, and its content
  logCycles,       \* the invocations of logExecution, in call order
  scriptsDir,      \* the files of the scripts directory
  scriptsCache,    \* index.ts: the descriptors of the last discovery pass
  http,            \* index.ts: the /api/execute/ request being handled, its response
  passes,          \* index.ts: the calls of loadScripts, each with its discovery pass
  proc,            \* executor.ts: the child process and its command line
  pipes,           \* the child's stdout and stderr pipes: unread fragments, end of file
  wrote,           \* the bytes the child has written to each pipe, in order
  readers,         \* executor.ts: the two reader loops and their decoders
  startPc,         \* executor.ts: where start() of the chunk stream stands
  outputLines,     \* executor.ts: outputLines, the ledger buffer
  stream,          \* executor.ts: the chunk stream returned by executeScript
  emitted,         \* the chunks enqueued on the chunk stream, in order
  inbox,           \* the resolved read of the chunk stream's consumer
  sse,             \* index.ts: sseStream and its relay loop
  conn,            \* the caller's connection of the streamed response
  consumer,        \* a direct consumer of executeScript's chunk stream
  parked,          \* executor.ts: a second call of executeScript, see SpecPair
  paramValue,      \* parser.ts: the text after '@param' handed to parseParam
  paramResult,     \* parser.ts: what parseParam returned for it
  outputValue,     \* ScriptTerminal.vue: output.value, the displayed lines
  isRunning,       \* ScriptTerminal.vue: isRunning.value
  runs             \* ScriptTerminal.vue: the calls of executeScript, in click order

bindVars == <<bindParamsDecl, bindParams, bindResult, bindPc>>

parseVars == <<paramValue, paramResult>>

termVars == <<outputValue, isRunning, runs>>

logVars == <<logFile, logCycles>>

serverVars == <<scriptsDir, scriptsCache, http, passes>>

pipeVars ==
  <<proc, pipes, wrote, readers, startPc, outputLines, stream, emitted, inbox, parked>>

relayVars == <<sse, conn>>

nonLogVars == <<bindVars, parseVars, termVars, serverVars, pipeVars, relayVars, consumer>>

vars == <<bindVars, parseVars, termVars, logVars, serverVars, pipeVars, relayVars, consumer>>

NoResult == [ok |-> FALSE, args |-> <<>>, error |-> <<>>]

BindIdle ==
  /\ bindParamsDecl = <<>>
  /\ bindParams = <<>>
  /\ bindResult = NoResult
  /\ bindPc = "idle"

\* No call of parseParam
NotParsed == [pc |-> "idle", param |-> <<>>]

ParseIdle ==
  /\ paramValue = <<>>
  /\ paramResult = NotParsed

\* The component as mounted: nothing displayed, nothing running
TermIdle ==
  /\ outputValue = <<>>
  /\ isRunning = FALSE
  /\ runs = <<>>

\* ------------------------------------------------------------------------
\* The ledger: appendFile, then trimLogFile (exists, text, writeFile)
\* ------------------------------------------------------------------------
LogIdle ==
  /\ logFile = [exists |-> FALSE, content |-> <<>>]
  /\ logCycles = <<>>

\* An append that lands inside the last line of the file instead of after it
AppendFileInterleaved(content, logContent) ==
  IF content = <<>> THEN logContent
  ELSE SubSeq(content, 1, Len(content) - 1) \o logContent \o <<content[Len(content)]>>

\* appendFile(LOG_FILE, logContent): one write at the end of the file
AppendFile(content, logContent) == content \o logContent

\* await appendFile(LOG_FILE, logContent): the file is created when missing
LogAppend(c) ==
  /\ logCycles[c].pc = "append"
  /\ logFile' = [exists |-> TRUE, content |-> AppendFile(logFile.content, logCycles[c].logContent)]
  /\ logCycles' = [logCycles EXCEPT ![c].pc = "exists"]

\* trimLogFile: if (!(await file.exists())) return
LogExists(c) ==
  /\ logCycles[c].pc = "exists"
  /\ logCycles' = [logCycles EXCEPT ![c].pc = IF logFile.exists THEN "read" ELSE "return"]
  /\ UNCHANGED logFile

\* trimLogFile: content = await file.text(); lines = content.split('\n');
\* the rewrite is issued when lines.length > MAX_LINES
LogRead(c) ==
  /\ logCycles[c].pc = "read"
  /\ logCycles' = [logCycles EXCEPT
       ![c].pc = IF NeedsTrim(logFile.content) THEN "write" ELSE "return",
       ![c].trimmed = IF NeedsTrim(logFile.content) THEN Trimmed(logFile.content) ELSE <<>>]
  /\ UNCHANGED logFile

\* trimLogFile: await writeFile(LOG_FILE, trimmed)
LogWrite(c) ==
  /\ logCycles[c].pc = "write"
  /\ logFile' = [exists |-> TRUE, content |-> logCycles[c].trimmed]
  /\ logCycles' = [logCycles EXCEPT ![c].pc = "return"]

\* trimLogFile and logExecution return: the append+trim cycle is complete
LogReturn(c) ==
  /\ logCycles[c].pc = "return"
  /\ logCycles' = [logCycles EXCEPT ![c].pc = "done"]
  /\ UNCHANGED logFile

\* A catch block that would throw the error on: the promise of logExecution
\* rejects
LogRethrow(cycle) == [cycle EXCEPT !.pc = "done", !.failed = TRUE, !.rejected = TRUE]

\* logExecution: catch (error) { console.error(...) }, then the promise resolves
LogCatch(cycle) == [cycle EXCEPT !.pc = "done", !.failed = TRUE]

\* trimLogFile: catch (error) { console.error(...) }, then it returns
TrimCatch(cycle) == [cycle EXCEPT !.pc = "return", !.failed = TRUE]

\* appendFile fails (disk error, permissions): nothing is written
LogAppendFail(c) ==
  /\ logCycles[c].pc = "append"
  /\ logCycles' = [logCycles EXCEPT ![c] = LogCatch(@)]
  /\ UNCHANGED logFile

\* file.exists(), file.text() or writeFile fails inside trimLogFile; a
\* writeFile that fails may already have emptied the file
LogTrimFail(c) ==
  /\ logCycles[c].pc \in {"exists", "read", "write"}
  /\ logCycles' = [logCycles EXCEPT ![c] = TrimCatch(@)]
  /\ IF logCycles[c].pc = "write"
     THEN \E content \in {logFile.content, <<>>} : logFile' = [logFile EXCEPT !.content = content]
     ELSE UNCHANGED logFile

\* ------------------------------------------------------------------------
\* The HTTP server (index.ts)
\* ------------------------------------------------------------------------
NoRequest == [valid |-> FALSE, params |-> <<>>]

IdleHttp ==
  [phase |-> "idle", path |-> <<>>, body |-> NoRequest, script |-> {}, status |-> 0,
   error |-> <<>>]

\* The requests drawn: the path after the first '/api/execute/', and the body
GreetAda == [k \in {"name", "excited"} |-> IF k = "name" THEN Str("Ada") ELSE Bool(TRUE)]

RequestPaths ==
  { <<"hello", ".sh">>,
    <<"missing", ".sh">>,
    <<"hello", ".sh", ExecutePrefix, "x">> }

RequestBodies ==
  { [valid |-> FALSE, params |-> <<>>],
    [valid |-> TRUE, params |-> <<>>],
    [valid |-> TRUE, params |-> [k \in {"excited"} |-> Bool(FALSE)]],
    [valid |-> TRUE, params |-> GreetAda] }

ServerIdle ==
  /\ scriptsDir = {}
  /\ scriptsCache = {}
  /\ http = IdleHttp
  /\ passes = <<>>

\* What one call of executeScript owns: proc, outputLines, the chunk stream and
\* the two loops are locals of the call, and its consumer reads its stream
NoExecution ==
  [proc |-> NoProc, pipes |-> NoPipes, wrote |-> [out |-> <<>>, err |-> <<>>],
   readers |-> NoReaders, startPc |-> "none", outputLines |-> <<>>, stream |-> NoStream,
   emitted |-> <<>>, inbox |-> NoInbox,
   consumer |-> [pc |-> "none", received |-> <<>>, cancelled |-> FALSE]]

PipelineIdle ==
  /\ proc = NoProc
  /\ pipes = NoPipes
  /\ wrote = [out |-> <<>>, err |-> <<>>]
  /\ readers = NoReaders
  /\ startPc = "none"
  /\ outputLines = <<>>
  /\ stream = NoStream
  /\ emitted = <<>>
  /\ inbox = NoInbox
  /\ parked = NoExecution

RelayIdle ==
  /\ sse = [state |-> "none", pc |-> "none", sent |-> <<>>]
  /\ conn = [state |-> "none", childRunningAtSever |-> FALSE]

ConsumerIdle == consumer = [pc |-> "none", received |-> <<>>, cancelled |-> FALSE]

\* await loadScripts() at startup, over the directory as it is then
ServerInit ==
  /\ scriptsDir \in SUBSET AllFiles
  /\ scriptsCache = DiscoverScripts(scriptsDir)
  /\ http = IdleHttp
  /\ passes = <<>>

\* A file appears in, or disappears from, the scripts directory
DirChangeAmong(files) ==
  /\ \E file \in files :
       scriptsDir' = IF file \in scriptsDir THEN scriptsDir \ {file} ELSE scriptsDir \cup {file}
  /\ UNCHANGED <<scriptsCache, http, passes, pipeVars, relayVars, consumer, logVars, bindVars, parseVars, termVars>>

DirChange == DirChangeAmong(AllFiles)

\* GET /api/scripts: await loadScripts() replaces scriptsCache by the result
\* of a discovery pass, and the cache is the response
ListScripts ==
  /\ scriptsCache' = DiscoverScripts(scriptsDir)
  /\ UNCHANGED <<scriptsDir, http, passes, pipeVars, relayVars, consumer, logVars, bindVars, parseVars, termVars>>

\* POST /api/execute/...: the script is looked up; 404 when it is not found,
\* else the handler awaits req.json()
ExecuteArriveWith(paths, bodies) ==
  /\ http.phase \in {"idle", "responded"}
  /\ \E path \in paths, body \in bodies :
       LET found == FindScript(scriptsCache, ScriptNameOf(path))
       IN http' = IF found = {}
                  THEN [phase |-> "responded", path |-> path, body |-> NoRequest,
                        script |-> {}, status |-> 404, error |-> <<"Script not found">>]
                  ELSE [phase |-> "body", path |-> path, body |-> body, script |-> found,
                        status |-> 0, error |-> <<>>]
  /\ UNCHANGED <<scriptsDir, scriptsCache, passes, pipeVars, relayVars, consumer, logVars,
                 bindVars, parseVars, termVars>>

\* What executeScript sets up before it returns: the child is spawned, both
\* reader loops are waiting on their first read, start() awaits proc.exited
Launched(script, params, args, program) ==
  /\ proc' = [state |-> "running", cmd |-> CommandLine(script, args), program |-> program,
              ended |-> Running, exitCode |-> Null, killed |-> FALSE,
              scriptName |-> script.name, params |-> params]
  /\ pipes' = NoPipes
  /\ wrote' = [out |-> <<>>, err |-> <<>>]
  /\ readers' = [out |-> [pc |-> "reading", pending |-> <<>>],
                 err |-> [pc |-> "reading", pending |-> <<>>]]
  /\ startPc' = "awaitExited"
  /\ outputLines' = <<>>
  /\ emitted' = <<>>
  /\ inbox' = NoInbox

\* The response of the request being handled
Responded(status, error) ==
  [phase |-> "responded", path |-> http.path, body |-> NoRequest, script |-> {},
   status |-> status, error |-> error]

\* spawn() throws when the child cannot be started (no such executable or
\* working directory, no process slot): error.message of what it throws
SpawnError == <<"ENOENT: no such file or directory, posix_spawn 'bash'">>

\* The body has arrived: invalid JSON, a failed argument building or a file
\* extension without interpreter give 400; else executeScript spawns the child and the response streams sseStream,
\* whose start() has issued its first read of the chunk stream. A spawn that
\* throws leaves executeScript before the chunk stream exists and is caught
\* by the handler like the other errors.
ExecuteRespondWith(programs) ==
  /\ http.phase = "body"
  /\ LET script == CHOOSE s \in http.script : TRUE
         params == http.body.params
         built == BuildArgs(script.params, params)
     IN IF ~http.body.valid
        THEN /\ http' = Responded(400, <<"SyntaxError: Failed to parse JSON">>)
             /\ UNCHANGED <<pipeVars, relayVars>>
        ELSE IF ~built.ok
             THEN /\ http' = Responded(400, built.error)
                  /\ UNCHANGED <<pipeVars, relayVars>>
        ELSE IF CommandLine(script, built.args) = <<>>
             THEN /\ http' = Responded(400, UnsupportedError(script.fileName))
                  /\ UNCHANGED <<pipeVars, relayVars>>
             ELSE /\ proc.state = "none"
                  /\ \/ /\ \E program \in programs :
                               Launched(script, params, built.args, program)
                        /\ stream' = ReadCall(NewStream).stream
                        /\ sse' = [state |-> "open", pc |-> "waiting", sent |-> <<>>]
                        /\ conn' = [state |-> "connected", childRunningAtSever |-> FALSE]
                        /\ http' = Responded(200, <<>>)
                     \/ /\ http' = Responded(400, SpawnError)
                        /\ UNCHANGED <<pipeVars, relayVars>>
  /\ UNCHANGED <<scriptsDir, scriptsCache, passes, consumer, logVars, bindVars, parseVars, termVars, parked>>

\* ------------------------------------------------------------------------
\* The child process
\* ------------------------------------------------------------------------
ChildWrite ==
  /\ proc.state = "running"
  /\ proc.program # <<>>
  /\ Head(proc.program).op = "write"
  /\ LET w == Head(proc.program)
     IN /\ pipes' = [pipes EXCEPT ![w.fd].buf = Append(@, w.bytes)]
        /\ wrote' = [wrote EXCEPT ![w.fd] = @ \o w.bytes]
  /\ proc' = [proc EXCEPT !.program = Tail(@)]
  /\ UNCHANGED <<readers, startPc, outputLines, stream, emitted, inbox, serverVars, relayVars,
                 consumer, logVars, bindVars, parseVars, termVars, parked>>

\* A process end that leaves the write ends of its pipes open
ExitedPipesOpen(ended) ==
  /\ proc' = [proc EXCEPT !.state = "exited", !.ended = ended, !.exitCode = ExitCodeOf(ended),
                          !.program = <<>>]
  /\ pipes' = pipes

\* The process ends: both pipes reach end of file once their data is read
Exited(ended) ==
  /\ proc' = [proc EXCEPT !.state = "exited", !.ended = ended, !.exitCode = ExitCodeOf(ended),
                          !.program = <<>>]
  /\ pipes' = [pipes EXCEPT !.out.eof = TRUE, !.err.eof = TRUE]

ChildExit ==
  /\ proc.state = "running"
  /\ proc.program # <<>>
  /\ Head(proc.program).op \in {"exit", "signal"}
  /\ Exited(IF Head(proc.program).op = "exit" THEN ExitedWith(Head(proc.program).code)
            ELSE EndedBySignal)
  /\ UNCHANGED <<wrote, readers, startPc, outputLines, stream, emitted, inbox, serverVars,
                 relayVars, consumer, logVars, bindVars, parseVars, termVars, parked>>

\* The signal of proc.kill() ends the process: no numeric exit code
ChildKilled ==
  /\ proc.state = "running"
  /\ proc.killed
  /\ Exited(EndedBySignal)
  /\ UNCHANGED <<wrote, readers, startPc, outputLines, stream, emitted, inbox, serverVars,
                 relayVars, consumer, logVars, bindVars, parseVars, termVars, parked>>

\* ------------------------------------------------------------------------
\* executeScript: the two reader loops and the rest of start()
\* ------------------------------------------------------------------------
Emitted(origin, text) == [origin |-> origin, text |-> text]

\* One turn of a reader loop: the read gives end of file (break), or a
\* fragment that is decoded, pushed to outputLines and enqueued; an enqueue
\* that throws is caught outside the loop, which ends it
ReaderTurn(fd) ==
  /\ readers[fd].pc = "reading"
  /\ IF pipes[fd].buf = <<>>
     THEN /\ pipes[fd].eof
          /\ readers' = [readers EXCEPT ![fd].pc = "done"]
          /\ UNCHANGED <<pipes, outputLines, stream, emitted, inbox>>
     ELSE LET decoded == Decode(readers[fd].pending, Head(pipes[fd].buf))
              text == ChunkText(fd, decoded.text)
              enq == Enqueue(stream, inbox, text)
          IN /\ pipes' = [pipes EXCEPT ![fd].buf = Tail(@)]
             /\ outputLines' = Append(outputLines, text)
             /\ IF CanEnqueue(stream)
                THEN /\ stream' = enq.stream
                     /\ inbox' = enq.inbox
                     /\ emitted' = Append(emitted, Emitted(fd, text))
                     /\ readers' = [readers EXCEPT ![fd].pending = decoded.pending]
                ELSE /\ readers' = [readers EXCEPT ![fd].pc = "failed",
                                                   ![fd].pending = decoded.pending]
                     /\ UNCHANGED <<stream, emitted, inbox>>
  /\ UNCHANGED <<proc, wrote, startPc, serverVars, relayVars, consumer, logVars, bindVars, parseVars, termVars, parked>>

ReadStdout == ReaderTurn("out")

ReadStderr == ReaderTurn("err")

\* start() after await proc.exited: the exit message is pushed and enqueued,
\* the stream closed and the execution logged. When the enqueue throws (the
\* stream was cancelled) the catch block pushes the error message, and its own
\* enqueue throws out of start() before logExecution is reached.
StartAfterExit ==
  /\ startPc = "awaitExited"
  /\ proc.state = "exited"
  /\ LET exitMessage == ExitMessage(proc.exitCode)
         lines == Append(outputLines, exitMessage)
         enq == Enqueue(stream, inbox, exitMessage)
         closed == CloseStream(enq.stream, enq.inbox)
     IN IF CanEnqueue(stream)
        THEN /\ outputLines' = lines
             /\ stream' = closed.stream
             /\ inbox' = closed.inbox
             /\ emitted' = Append(emitted, Emitted("exit", exitMessage))
             /\ logCycles' = Append(logCycles,
                  NewCycle(proc.scriptName, proc.params, lines, OrZero(proc.exitCode)))
             /\ startPc' = "done"
        ELSE /\ outputLines' = Append(lines, ErrorMessage(EnqueueTypeError))
             /\ startPc' = "rejected"
             /\ UNCHANGED <<stream, inbox, emitted, logCycles>>
  /\ UNCHANGED <<proc, pipes, wrote, readers, logFile, serverVars, relayVars, consumer,
                 bindVars, parseVars, termVars, parked>>

\* A cancel() that logs without ending the child
SourceCancelNoKill ==
  /\ proc' = proc
  /\ outputLines' = Append(outputLines, KilledNotice)
  /\ logCycles' = Append(logCycles,
       NewCycle(proc.scriptName, proc.params, Append(outputLines, KilledNotice), Undefined))

\* cancel() of the chunk stream, when a reader.cancel() reaches it
SourceCancel ==
  /\ proc' = [proc EXCEPT !.killed = TRUE]
  /\ outputLines' = Append(outputLines, KilledNotice)
  /\ logCycles' = Append(logCycles,
       NewCycle(proc.scriptName, proc.params, Append(outputLines, KilledNotice), Undefined))

\* ------------------------------------------------------------------------
\* index.ts: sseStream.start(), the relay loop, and the caller's connection
\* ------------------------------------------------------------------------
\* The relay's read has settled. A chunk is framed and enqueued on sseStream
\* and the next read is issued; the end of the chunk stream gives the done
\* event and closes sseStream; a rejected read is caught. Once sseStream was
\* cancelled its enqueue throws, in the loop and again in the catch block:
\* start() rejects.
RelayTurn ==
  /\ sse.pc = "waiting"
  /\ inbox.kind # "none"
  /\ IF sse.state # "open"
     THEN /\ sse' = [sse EXCEPT !.pc = "failed"]
          /\ inbox' = NoInbox
          /\ UNCHANGED stream
     ELSE IF inbox.kind = "chunk"
          THEN /\ sse' = [sse EXCEPT !.sent = Append(@, OutputEvent(inbox.value))]
               /\ stream' = ReadCall(stream).stream
               /\ inbox' = ReadCall(stream).inbox
          ELSE IF inbox.kind = "error"
               THEN /\ sse' = RelayCatch(sse, inbox.value)
                    /\ inbox' = NoInbox
                    /\ UNCHANGED stream
               ELSE /\ sse' = [sse EXCEPT !.sent = Append(@, DoneEvent), !.state = "closed",
                                          !.pc = "finished"]
                    /\ inbox' = NoInbox
                    /\ UNCHANGED stream
  /\ UNCHANGED <<proc, pipes, wrote, readers, startPc, outputLines, emitted, conn, serverVars,
                 consumer, logVars, bindVars, parseVars, termVars, parked>>

\* The caller severs the connection: the response body sseStream is cancelled.
\* sseStream has no cancel() of its own, so nothing else happens.
ClientDisconnect ==
  /\ conn.state = "connected"
  /\ conn' = [state |-> "severed", childRunningAtSever |-> proc.state = "running"]
  /\ sse' = [sse EXCEPT !.state = IF @ = "open" THEN "cancelled" ELSE @]
  /\ UNCHANGED <<pipeVars, serverVars, consumer, logVars, bindVars, parseVars, termVars>>

\* ------------------------------------------------------------------------
\* SpecLog: logExecution called up to MaxCycles times, the calls overlapping
\* ------------------------------------------------------------------------
\* The calls drawn: a cancelled run with no output, a completed run with one
\* chunk, and a completed run whose entry alone is longer than MAX_LINES.
LogCalls ==
  { [scriptName |-> "Hello World", output |-> <<>>, exitCode |-> Undefined],
    [scriptName |-> "Port Killer", output |-> << <<"killed", NL>> >>, exitCode |-> Num(0)],
    [scriptName |-> "Hello World",
     output |-> << <<"hello", NL>>, <<NL, "[Process exited with code ", "1", "]", NL>> >>,
     exitCode |-> Num(1)] }

LogCall ==
  /\ Len(logCycles) < MaxCycles
  /\ \E call \in LogCalls :
       logCycles' = Append(logCycles, NewCycle(call.scriptName, <<>>, call.output, call.exitCode))
  /\ UNCHANGED <<logFile, nonLogVars>>

LogAppendStep == \E c \in 1..Len(logCycles) : LogAppend(c) /\ UNCHANGED nonLogVars

LogExistsStep == \E c \in 1..Len(logCycles) : LogExists(c) /\ UNCHANGED nonLogVars

LogReadStep == \E c \in 1..Len(logCycles) : LogRead(c) /\ UNCHANGED nonLogVars

LogWriteStep == \E c \in 1..Len(logCycles) : LogWrite(c) /\ UNCHANGED nonLogVars

LogReturnStep == \E c \in 1..Len(logCycles) : LogReturn(c) /\ UNCHANGED nonLogVars

LogNext ==
  \/ LogCall
  \/ LogAppendStep
  \/ LogExistsStep
  \/ LogReadStep
  \/ LogWriteStep
  \/ LogReturnStep

LogInit ==
  /\ BindIdle /\ ParseIdle /\ TermIdle /\ LogIdle /\ ServerIdle /\ PipelineIdle /\ RelayIdle /\ ConsumerIdle

SpecLog == LogInit /\ [][LogNext]_vars

\* The number of lines of the log file (content split on newline)
LogFileLines == Len(Split(logFile.content))

\* C10: right after an append+trim cycle of logExecution completes, the log
\* file has at most MAX_LINES lines.
C10_LinesWithinCeilingAfterCycle ==
  [][\A c \in 1..Len(logCycles) :
       (logCycles[c].pc = "return" /\ logCycles'[c].pc = "done") => LogFileLines' <= MAX_LINES]_vars

\* ------------------------------------------------------------------------
\* A direct consumer of executeScript: it reads the chunk stream through a
\* reader and may cancel it at any time
\* ------------------------------------------------------------------------
ExecCall ==
  /\ proc.state = "none"
  /\ consumer.pc = "none"
  /\ LET script == ScriptMetadata(HelloFile)
         built == BuildArgs(script.params, GreetAda)
     IN \E program \in Programs : Launched(script, GreetAda, built.args, program)
  /\ stream' = NewStream
  /\ consumer' = [consumer EXCEPT !.pc = "idle"]
  /\ UNCHANGED <<serverVars, relayVars, logVars, bindVars, parseVars, termVars, parked>>

\* reader.read()
ConsumerRead ==
  /\ consumer.pc = "idle"
  /\ stream' = ReadCall(stream).stream
  /\ inbox' = ReadCall(stream).inbox
  /\ consumer' = [consumer EXCEPT !.pc = "reading"]
  /\ UNCHANGED <<proc, pipes, wrote, readers, startPc, outputLines, emitted, serverVars,
                 relayVars, logVars, bindVars, parseVars, termVars, parked>>

\* The read has resolved
ConsumerTake ==
  /\ consumer.pc = "reading"
  /\ inbox.kind # "none"
  /\ consumer' = [consumer EXCEPT !.pc = IF inbox.kind = "done" THEN "ended" ELSE "idle",
                                  !.received = Append(@, inbox)]
  /\ inbox' = NoInbox
  /\ UNCHANGED <<proc, pipes, wrote, readers, startPc, outputLines, stream, emitted,
                 serverVars, relayVars, logVars, bindVars, parseVars, termVars, parked>>

\* reader.cancel(): a stream that is still readable is closed, its queue is
\* dropped, an outstanding read resolves as done, and cancel() of the
\* underlying source runs; on a closed stream nothing happens
ConsumerCancel ==
  /\ consumer.pc \in {"idle", "reading"}
  /\ ~consumer.cancelled
  /\ consumer' = [consumer EXCEPT !.cancelled = TRUE,
                                  !.pc = IF @ = "idle" THEN "ended" ELSE @]
  /\ IF CancelReachesSource(stream)
     THEN /\ stream' = [stream EXCEPT !.state = "closed", !.queue = <<>>, !.pendingRead = FALSE]
          /\ inbox' = IF stream.pendingRead THEN DoneInbox ELSE inbox
          /\ SourceCancel
     ELSE UNCHANGED <<stream, inbox, proc, outputLines, logCycles>>
  /\ UNCHANGED <<pipes, wrote, readers, startPc, emitted, logFile, serverVars, relayVars,
                 bindVars, parseVars, termVars, parked>>

\* ------------------------------------------------------------------------
\* Spec: one execution from its request to the caller, through the relay.
\* The request is POST /api/execute/hello.sh with {name: "Ada", excited: true};
\* the child runs any of Programs. Nothing in index.ts cancels the chunk
\* stream, so proc.kill() is never reached here and ChildKilled is left out.
\* ------------------------------------------------------------------------
ServerStarted ==
  /\ scriptsDir = AllFiles
  /\ scriptsCache = DiscoverScripts(scriptsDir)
  /\ http = IdleHttp
  /\ passes = <<>>

Init ==
  /\ BindIdle /\ ParseIdle /\ TermIdle /\ LogIdle /\ ServerStarted /\ PipelineIdle /\ RelayIdle /\ ConsumerIdle

\* The one request of Spec: hello.sh with both of its parameters
HelloPaths == {<<"hello", ".sh">>}

GreetAdaBodies == {[valid |-> TRUE, params |-> GreetAda]}

ExecuteArrive == ExecuteArriveWith(HelloPaths, GreetAdaBodies)

ExecuteRespond == ExecuteRespondWith(Programs)

Next ==
  \/ ExecuteArrive
  \/ ExecuteRespond
  \/ ChildWrite
  \/ ChildExit
  \/ ReadStdout
  \/ ReadStderr
  \/ StartAfterExit
  \/ RelayTurn
  \/ ClientDisconnect
  \/ LogAppendStep
  \/ LogExistsStep
  \/ LogReadStep
  \/ LogWriteStep
  \/ LogReturnStep

Spec == Init /\ [][Next]_vars

\* ------------------------------------------------------------------------
\* Claims on Spec
\* ------------------------------------------------------------------------
AllCyclesDone == \A c \in 1..Len(logCycles) : logCycles[c].pc = "done"

\* The execution has nothing left to do: the child has ended, start() has
\* run to its end and every logExecution has returned
Quiescent == proc.state = "exited" /\ startPc \in {"done", "rejected"} /\ AllCyclesDone

\* A ledger entry that records the cancelled outcome
IsCancelledEntry(cycle) ==
  LET lines == Split(cycle.logContent)
  IN /\ \E i \in 1..Len(lines) : lines[i] = KilledNotice
     /\ \E i \in 1..Len(lines) : lines[i] = <<"Exit Code: ", "N/A">>

\* C1: when the caller severed the connection while the child was running,
\* the child is terminated by proc.kill() and a ledger entry records the
\* cancelled outcome; stated for the executions that have come to rest.
C1_SeveredWhileRunningKillsAndLogsCancelled ==
  (conn.state = "severed" /\ conn.childRunningAtSever /\ Quiescent) =>
    /\ proc.killed
    /\ \E c \in 1..Len(logCycles) : IsCancelledEntry(logCycles[c])

\* TextEncoder.encode of a decoded text, as bytes
RECURSIVE Encode(_)
Encode(text) ==
  IF text = <<>> THEN <<>>
  ELSE (CASE Head(text) = "U+00E9" -> <<"C3", "A9">>
          [] Head(text) = "U+FFFD" -> <<"EF", "BF", "BD">>
          [] OTHER -> <<Head(text)>>) \o Encode(Tail(text))

\* The emitted chunks of one origin, the stderr tag removed, concatenated
RECURSIVE OriginText(_, _)
OriginText(chunks, fd) ==
  IF chunks = <<>> THEN <<>>
  ELSE (IF Head(chunks).origin # fd THEN <<>>
        ELSE IF fd = "err" THEN Tail(Head(chunks).text) ELSE Head(chunks).text)
       \o OriginText(Tail(chunks), fd)

ReadersEnded == \A fd \in {"out", "err"} : readers[fd].pc \in {"done", "failed"}

\* C2: in an execution that completed without cancellation, the emitted
\* chunks of each origin, concatenated (stderr tag removed) and re-encoded, are
\* the bytes the child wrote on that stream: nothing lost, repeated or altered.
C2_EmittedChunksReproduceWrittenBytes ==
  (startPc = "done" /\ ReadersEnded /\ ~proc.killed) =>
    \A fd \in {"out", "err"} : Encode(OriginText(emitted, fd)) = wrote[fd]

IsExitEvent(m) ==
  m.type = "output" /\ Len(m.text) = 5 /\ m.text[2] = "[Process exited with code "

\* C3: the exit-code chunk is enqueued once and nothing is enqueued after it;
\* the relay delivers it once, as the last output event, and the done event
\* comes right after it and last.
C3_ExitChunkIsLastBeforeDone ==
  /\ \A i \in 1..Len(emitted) : emitted[i].origin = "exit" => i = Len(emitted)
  /\ \A i \in 1..Len(sse.sent) :
       /\ IsExitEvent(sse.sent[i]) =>
            \/ i = Len(sse.sent)
            \/ i = Len(sse.sent) - 1 /\ sse.sent[Len(sse.sent)].type = "done"
       /\ sse.sent[i].type = "done" =>
            i = Len(sse.sent) /\ i > 1 /\ IsExitEvent(sse.sent[i - 1])

\* C3 witness: the caller got the done event of a run in which a reader loop
\* still had a fragment to enqueue after the exit-code chunk.
C3_Witness ==
  /\ sse.pc = "finished"
  /\ sse.sent[Len(sse.sent)].type = "done"
  /\ \E fd \in {"out", "err"} : readers[fd].pc = "failed"

\* C4: the code in the exit-code chunk is the number the child exited with;
\* for a child that a signal ended (no numeric exit code) it is "null" and
\* never a number.
C4_ExitChunkReportsTrueStatus ==
  \A i \in 1..Len(emitted) :
    emitted[i].origin = "exit" =>
      /\ proc.ended.how = "exit" => emitted[i].text[3] = ToString(proc.ended.code)
      /\ proc.ended.how = "signal" => emitted[i].text[3] = "null"
      /\ proc.ended.how # "running"

\* C4 witnesses: exit-code chunks for a non-zero exit and for a signal.
C4_Witness ==
  /\ startPc = "done"
  /\ \/ proc.ended = ExitedWith(1) /\ emitted[Len(emitted)].text[3] = "1"
     \/ proc.ended = EndedBySignal /\ emitted[Len(emitted)].text[3] = "null"

\* ------------------------------------------------------------------------
\* SpecExec: executeScript called directly, its chunk stream read and
\* possibly cancelled by the caller
\* ------------------------------------------------------------------------
ExecInit ==
  /\ BindIdle /\ ParseIdle /\ TermIdle /\ LogIdle /\ ServerStarted /\ PipelineIdle /\ RelayIdle /\ ConsumerIdle

ExecNext ==
  \/ ExecCall
  \/ ChildWrite
  \/ ChildExit
  \/ ChildKilled
  \/ ReadStdout
  \/ ReadStderr
  \/ StartAfterExit
  \/ ConsumerRead
  \/ ConsumerTake
  \/ ConsumerCancel
  \/ LogAppendStep
  \/ LogExistsStep
  \/ LogReadStep
  \/ LogWriteStep
  \/ LogReturnStep

SpecExec == ExecInit /\ [][ExecNext]_vars

\* The execution has reached an outcome: completed (start() logged the exit),
\* failed (start() ended in its catch block) or cancelled (cancel() ran)
OutcomeReached == startPc \in {"done", "rejected"} \/ proc.killed

\* C5: logExecution is invoked exactly once per execution: never twice, and
\* once as soon as the execution has reached its outcome.
C5_LoggedExactlyOnce ==
  /\ Len(logCycles) <= 1
  /\ OutcomeReached => Len(logCycles) = 1

\* ------------------------------------------------------------------------
\* SpecHttp: the routes of the server under any sequence of requests and of
\* changes of the scripts directory; the child of an accepted request greets
\* and exits.
\* ------------------------------------------------------------------------
HttpInit ==
  /\ BindIdle /\ ParseIdle /\ TermIdle /\ LogIdle /\ ServerInit /\ PipelineIdle /\ RelayIdle /\ ConsumerIdle

HttpExecuteArrive == ExecuteArriveWith(RequestPaths, RequestBodies)

\* The child of an accepted request greets and exits
GreetingPrograms == {<<Write("out", <<"Hello, Ada!", NL>>), Exit(0)>>}

HttpExecuteRespond == ExecuteRespondWith(GreetingPrograms)

HttpNext ==
  \/ DirChange
  \/ ListScripts
  \/ HttpExecuteArrive
  \/ HttpExecuteRespond
  \/ ChildWrite
  \/ ChildExit
  \/ ReadStdout
  \/ ReadStderr
  \/ StartAfterExit
  \/ RelayTurn
  \/ ClientDisconnect
  \/ LogAppendStep
  \/ LogExistsStep
  \/ LogReadStep
  \/ LogWriteStep
  \/ LogReturnStep

SpecHttp == HttpInit /\ [][HttpNext]_vars

\* The value of a declared parameter is absent, null or the empty string
\* (stated on the mapping itself, not through the code's test).
ValueAbsent(params, name) ==
  \/ name \notin DOMAIN params
  \/ params[name] = Null
  \/ params[name] = Str("")

\* Some required parameter of the script has no value in the request
MissingRequired(script, params) ==
  \E i \in 1..Len(script.params) :
    script.params[i].required /\ ValueAbsent(params, script.params[i].name)

\* C8: a request whose parameters miss a required one is answered 400 with
\* the error message of a missing required parameter; no child is spawned
\* and logExecution is not called.
C8_MissingParameterGives400 ==
  [][(/\ http.phase = "body"
      /\ http' # http
      /\ http.body.valid
      /\ \A s \in http.script : MissingRequired(s, http.body.params))
     => /\ http'.phase = "responded"
        /\ http'.status = 400
        /\ \E s \in http.script : \E i \in 1..Len(s.params) :
             s.params[i].required /\ http'.error = MissingError(s.params[i].name)
        /\ UNCHANGED <<proc, pipes, stream, startPc, logCycles, logFile>>]_vars

\* C8 witness: the 400 of a request without the required 'name', while no
\* child was ever spawned and the ledger is untouched.
C8_Witness ==
  /\ http.phase = "responded"
  /\ http.status = 400
  /\ http.error = MissingError("name")
  /\ proc.state = "none"
  /\ logCycles = <<>>
  /\ ~logFile.exists

\* C9: an execute request whose file name (the path after /api/execute/) is
\* not the fileName of a descriptor of scriptsCache is answered 404; no child
\* is spawned for it and logExecution is not called.
C9_UnknownFileNameGives404 ==
  [][/\ (/\ http.phase \in {"idle", "responded"}
          /\ http' # http
          /\ \A s \in scriptsCache : s.fileName # http'.path)
         => /\ http'.phase = "responded"
            /\ http'.status = 404
            /\ UNCHANGED <<proc, pipes, stream, startPc, logCycles, logFile>>
     /\ (http.phase = "body" /\ http'.status = 200)
         => \E s \in http.script : s.fileName = http.path]_vars

\* ------------------------------------------------------------------------
\* SpecBind: the argument building on every descriptor and mapping in bounds
\* ------------------------------------------------------------------------
ParamNames == {"name", "excited"}

ParamType(name) == IF name = "excited" THEN "boolean" ELSE "string"

ParamSpecs == {[name |-> n, type |-> ParamType(n), required |-> r] : n \in ParamNames, r \in BOOLEAN}

SeqsUpTo(S, n) == UNION {[1..k -> S] : k \in 0..n}

MappingKeys == ParamNames \cup {"extra"}

Mappings == UNION {[K -> JsValues] : K \in SUBSET MappingKeys}

BindInit ==
  /\ bindParamsDecl \in SeqsUpTo(ParamSpecs, MaxParams)
  /\ bindParams \in Mappings
  /\ bindResult = NoResult
  /\ bindPc = "call"
  /\ ParseIdle /\ TermIdle /\ LogIdle /\ ServerIdle /\ PipelineIdle /\ RelayIdle /\ ConsumerIdle

BindCall ==
  /\ bindPc = "call"
  /\ bindResult' = BuildArgs(bindParamsDecl, bindParams)
  /\ bindPc' = "done"
  /\ UNCHANGED <<bindParamsDecl, bindParams, parseVars, termVars, logVars, serverVars, pipeVars,
                 relayVars, consumer>>

SpecBind == BindInit /\ [][BindCall]_vars

\* C6: the argument building fails, with the missing-required-parameter error
\* of a required parameter whose value is absent, null or '', if and only if
\* some required parameter has such a value; optional parameters never make
\* it fail.
C6_FailsIffRequiredMissing ==
  bindPc = "done" =>
    /\ ~bindResult.ok <=>
         \E i \in 1..Len(bindParamsDecl) :
           bindParamsDecl[i].required /\ ValueAbsent(bindParams, bindParamsDecl[i].name)
    /\ ~bindResult.ok =>
         \E i \in 1..Len(bindParamsDecl) :
           /\ bindParamsDecl[i].required
           /\ ValueAbsent(bindParams, bindParamsDecl[i].name)
           /\ bindResult.error = MissingError(bindParamsDecl[i].name)

\* C6 witness: a call that failed although an optional parameter before the
\* missing required one was absent too, and one value was 0.
C6_Witness ==
  /\ bindPc = "done"
  /\ ~bindResult.ok
  /\ Len(bindParamsDecl) = 2
  /\ ~bindParamsDecl[1].required
  /\ ValueAbsent(bindParams, bindParamsDecl[1].name)
  /\ bindParamsDecl[2].required
  /\ \E k \in DOMAIN bindParams : bindParams[k] = Num(0)

\* The declared parameters (by position) whose value is present
PresentPositions(decl, params) == {i \in 1..Len(decl) : ~ValueAbsent(params, decl[i].name)}

\* C7: when every required parameter is satisfied, the argument list is the
\* String(value) of the declared parameters with a present value, in
\* declaration order: as many arguments as such parameters, the k-th argument
\* from the k-th of them, nothing from undeclared keys.
C7_ArgsArePresentValuesInOrder ==
  (bindPc = "done" /\ bindResult.ok) =>
    LET present == PresentPositions(bindParamsDecl, bindParams)
    IN /\ Len(bindResult.args) = Cardinality(present)
       /\ \A i \in present :
            bindResult.args[Cardinality({j \in present : j <= i})]
              = JsString(bindParams[bindParamsDecl[i].name])

\* C7 witness: two arguments built from a boolean and a string while the
\* mapping also carried an undeclared key.
C7_Witness ==
  /\ bindPc = "done"
  /\ bindResult.ok
  /\ bindResult.args = <<"Ada", "true">>
  /\ "extra" \in DOMAIN bindParams

\* ------------------------------------------------------------------------
\* Claims on SpecLog: the entries of overlapping logExecution calls
\* ------------------------------------------------------------------------
IsSuffix(s, t) == Len(s) <= Len(t) /\ SubSeq(t, Len(t) - Len(s) + 1, Len(t)) = s

\* The sequences of distinct logExecution calls
CycleOrders ==
  {order \in SeqsUpTo(1..Len(logCycles), Len(logCycles)) :
     \A i, j \in 1..Len(order) : i # j => order[i] # order[j]}

\* The entries of the calls of `order`, one after the other
RECURSIVE ConcatEntries(_)
ConcatEntries(order) ==
  IF order = <<>> THEN <<>>
  ELSE logCycles[Head(order)].logContent \o ConcatEntries(Tail(order))

\* C11: the entries of concurrent executions are contiguous in the log file:
\* the file is always the end of a concatenation of entries of different
\* logExecution calls, so no line of one entry lies between lines of another.
C11_EntriesAreContiguous ==
  \E order \in CycleOrders : IsSuffix(logFile.content, ConcatEntries(order))

\* C11 witness: two calls with different entries overlap (neither has
\* completed its cycle) and the file holds lines of both.
C11_Witness ==
  /\ Len(logCycles) = 2
  /\ logCycles[1].logContent # logCycles[2].logContent
  /\ \A c \in 1..2 : logCycles[c].pc \in {"exists", "read", "write", "return"}
  /\ Len(logFile.content) > Len(logCycles[1].logContent)
  /\ Len(logFile.content) > Len(logCycles[2].logContent)

\* ------------------------------------------------------------------------
\* Claims on Spec: the messages of the relay
\* ------------------------------------------------------------------------
JsonUnescape(char) ==
  CASE char = "\\n" -> NL
    [] char = "\\\"" -> "\""
    [] OTHER -> char

\* One message as its receiver reads it: a data line holding a JSON object,
\* ended by an empty line
SseMessage(data) ==
  IF data = SseDone THEN [type |-> "done", text |-> <<>>]
  ELSE IF /\ Len(data) >= 9
          /\ <<data[1], data[2], data[4], data[5]>> = <<"data: ", "{", ":", "\"">>
          /\ data[3] \in {"\"output\"", "\"error\""}
          /\ SubSeq(data, Len(data) - 3, Len(data)) = <<"\"", "}", NL, NL>>
          /\ \A i \in 6..(Len(data) - 4) : data[i] \notin {NL, "\""}
       THEN [type |-> IF data[3] = "\"output\"" THEN "output" ELSE "error",
             text |-> [i \in 1..(Len(data) - 9) |-> JsonUnescape(data[i + 5])]]
       ELSE [type |-> "malformed", text |-> <<>>]

\* C12: while the caller stays connected the messages sent are one output
\* message per enqueued chunk, in chunk order and carrying the chunk's text;
\* when the chunk stream has ended they are all the chunks followed by one
\* done message, which is the last message.
C12_OneOutputPerChunkThenDone ==
  conn.state = "connected" =>
    LET outputs == IF sse.pc = "finished" THEN Len(sse.sent) - 1 ELSE Len(sse.sent)
    IN /\ outputs <= Len(emitted)
       /\ \A i \in 1..outputs :
            SseMessage(sse.sent[i].data) = [type |-> "output", text |-> emitted[i].text]
       /\ sse.pc = "finished" =>
            /\ outputs = Len(emitted)
            /\ SseMessage(sse.sent[Len(sse.sent)].data) = [type |-> "done", text |-> <<>>]

\* C12 witness: a connected caller was sent the done message after a stdout
\* chunk with a line feed in it and the exit-code chunk.
C12_Witness ==
  /\ conn.state = "connected"
  /\ sse.pc = "finished"
  /\ Len(sse.sent) >= 3
  /\ \E i \in 1..Len(emitted) : emitted[i].origin = "out" /\ NL \in {emitted[i].text[k] : k \in 1..Len(emitted[i].text)}

\* ------------------------------------------------------------------------
\* SpecFail: Spec with a log file whose append and trim may fail
\* ------------------------------------------------------------------------
LogAppendFailStep == \E c \in 1..Len(logCycles) : LogAppendFail(c) /\ UNCHANGED nonLogVars

LogTrimFailStep == \E c \in 1..Len(logCycles) : LogTrimFail(c) /\ UNCHANGED nonLogVars

FailInit ==
  /\ BindIdle /\ ParseIdle /\ TermIdle /\ LogIdle /\ ServerStarted /\ PipelineIdle /\ RelayIdle /\ ConsumerIdle

FailNext ==
  \/ ExecuteArrive
  \/ ExecuteRespond
  \/ ChildWrite
  \/ ChildExit
  \/ ReadStdout
  \/ ReadStderr
  \/ StartAfterExit
  \/ RelayTurn
  \/ ClientDisconnect
  \/ LogAppendStep
  \/ LogExistsStep
  \/ LogReadStep
  \/ LogWriteStep
  \/ LogReturnStep
  \/ LogAppendFailStep
  \/ LogTrimFailStep

SpecFail == FailInit /\ [][FailNext]_vars

\* C13: a failing append or trim is caught inside logExecution: its promise
\* never rejects, the step that fails touches nothing the caller receives or
\* the request, and with a failed cycle the caller still gets every chunk, the
\* exit-code chunk last and then the done message.
C13_LogFailureLeavesResponseAlone ==
  [][/\ \A c \in 1..Len(logCycles') : ~logCycles'[c].rejected
     /\ (\E c \in 1..Len(logCycles) : Len(logCycles') = Len(logCycles)
                                         /\ logCycles'[c].failed /\ ~logCycles[c].failed)
          => UNCHANGED <<http, proc, stream, emitted, inbox, startPc, sse, conn, outputLines>>
     /\ (\E c \in 1..Len(logCycles') : logCycles'[c].failed)
          => /\ C3_ExitChunkIsLastBeforeDone'
             /\ C12_OneOutputPerChunkThenDone'
             /\ startPc' = "done"]_vars

\* C13 witness: the append of the execution's entry failed and the connected
\* caller has nevertheless been sent the exit-code chunk and the done message.
C13_Witness ==
  /\ \E c \in 1..Len(logCycles) : logCycles[c].failed
  /\ ~logFile.exists
  /\ conn.state = "connected"
  /\ sse.pc = "finished"
  /\ Len(sse.sent) >= 2
  /\ IsExitEvent(sse.sent[Len(sse.sent) - 1])

\* ------------------------------------------------------------------------
\* Claims on SpecBind: the position of an argument
\* ------------------------------------------------------------------------
\* C14: the value supplied for the k-th declared parameter is the k-th
\* argument of the child, whichever other parameters are left absent.
C14_KthParameterIsKthArgument ==
  (bindPc = "done" /\ bindResult.ok) =>
    \A k \in PresentPositions(bindParamsDecl, bindParams) :
      /\ k <= Len(bindResult.args)
      /\ bindResult.args[k] = JsString(bindParams[bindParamsDecl[k].name])

\* ------------------------------------------------------------------------
\* SpecDiscover: discovery passes over a directory of annotated files
\* ------------------------------------------------------------------------
AnnotatedFile(base, ext, name, description, category, context) ==
  [fileName |-> <<base, ext>>, name |-> name, description |-> description,
   category |-> category, context |-> context, params |-> <<>>]

\* Files with each extension, with and without each of the tags, and with
\* an invalid context
DiscoverFiles ==
  { HelloFile,
    NotesFile,
    AnnotatedFile("build", ".js", "Build", "Builds the app", "development", "browser"),
    AnnotatedFile("deploy", ".ts", "Deploy", "Ships it", "", "mobile"),
    AnnotatedFile("noname", ".sh", "", "Has no name", "misc", "terminal"),
    AnnotatedFile("nodesc", ".js", "No description", "", "", ""),
    AnnotatedFile("tool", ".py", "Tool", "A python tool", "", "") }

\* Before the load at startup the cache is empty
DiscoverInit ==
  /\ scriptsDir \in SUBSET DiscoverFiles
  /\ scriptsCache = {}
  /\ http = IdleHttp
  /\ passes = <<>>
  /\ BindIdle /\ ParseIdle /\ TermIdle /\ LogIdle /\ PipelineIdle /\ RelayIdle /\ ConsumerIdle

DiscoverDirChange == DirChangeAmong(DiscoverFiles)

DiscoverNext ==
  \/ ListScripts
  \/ DiscoverDirChange

SpecDiscover == DiscoverInit /\ [][DiscoverNext]_vars

HasScriptExtension(fileName) == fileName[Len(fileName)] \in {".sh", ".js", ".ts"}

\* C15: after a discovery pass a file of the directory is in the discovered
\* set if and only if its name ends in .sh, .js or .ts and it has both a name
\* and a description; a descriptor takes the file's category, or
\* 'uncategorized' without one, and the file's context when that is 'terminal'
\* or 'browser', else 'terminal'.
C15_DiscoveredIffExtensionAndTags ==
  [][scriptsDir' = scriptsDir =>
       /\ \A f \in scriptsDir :
            (\E s \in scriptsCache' : s.fileName = f.fileName)
              <=> (HasScriptExtension(f.fileName) /\ f.name # "" /\ f.description # "")
       /\ \A s \in scriptsCache' : \E f \in scriptsDir :
            /\ s.fileName = f.fileName
            /\ s.name = f.name
            /\ s.description = f.description
            /\ s.category = (IF f.category = "" THEN "uncategorized" ELSE f.category)
            /\ s.context = (IF f.context = "browser" THEN "browser" ELSE "terminal")]_vars

\* C15 witness: a pass over a directory holding an annotated file of another
\* extension, a script without description and a script with an invalid
\* context has discovered the last one only, as a terminal script without
\* category.
C15_Witness ==
  /\ {f.fileName : f \in scriptsDir} = {<<"notes", ".md">>, <<"nodesc", ".js">>, <<"deploy", ".ts">>}
  /\ {<<s.fileName, s.category, s.context>> : s \in scriptsCache}
       = {<< <<"deploy", ".ts">>, "uncategorized", "terminal" >>}

\* ------------------------------------------------------------------------
\* Claims on Spec: the end of the chunk stream and the ledger's transcript
\* ------------------------------------------------------------------------
\* C16: the chunk stream is closed (exit-code chunk enqueued, close
\* requested) only when neither reader loop has a fragment left to deliver.
C16_ClosedOnlyAfterReadersDrained ==
  stream.closeRequested =>
    \A fd \in {"out", "err"} : pipes[fd].buf = <<>> /\ readers[fd].pc # "failed"

\* The texts of the chunks enqueued on the chunk stream, in order
EnqueuedTexts == [i \in 1..Len(emitted) |-> emitted[i].text]

\* C17: for a completed execution the transcript of its ledger entry is the
\* sequence of the chunks enqueued on the chunk stream, in the same order: the
\* entry is the one logExecution builds from exactly those chunks.
C17_LedgerTranscriptIsEnqueuedChunks ==
  startPc = "done" =>
    /\ Len(logCycles) = 1
    /\ logCycles[1].logContent
         = LogContent(proc.scriptName, proc.params, EnqueuedTexts, OrZero(proc.exitCode))

\* C17 witness: the entry of a run with a stderr chunk, a stdout chunk and the
\* exit-code chunk has been written to the log file.
C17_Witness ==
  /\ startPc = "done"
  /\ Len(emitted) = 3
  /\ {emitted[i].origin : i \in 1..3} = {"out", "err", "exit"}
  /\ Len(logCycles) = 1
  /\ logCycles[1].pc = "done"
  /\ logFile.exists

\* ------------------------------------------------------------------------
\* Claims on SpecLog: the trim
\* ------------------------------------------------------------------------
\* C18: append+trim cycles are serialized: while one cycle stands between its
\* read of the log file and its rewrite no other call appends, so the rewrite
\* replaces the very content that was read and removes no entry appended since.
C18_NoAppendBetweenReadAndRewrite ==
  [][\A c \in 1..Len(logCycles) :
       /\ logCycles[c].pc = "write"
            => \A d \in 1..Len(logCycles) :
                 ~(logCycles[d].pc = "append" /\ logCycles'[d].pc = "exists")
       /\ (logCycles[c].pc = "write" /\ logCycles'[c].pc = "return")
            => logFile'.content = Trimmed(logFile.content)]_vars

\* C19: the log file holds whole entries only: it is always a concatenation
\* of complete entries, each with its header, parameter line, exit-code line,
\* transcript and closing separator.
C19_OnlyWholeEntries ==
  \E order \in CycleOrders : logFile.content = ConcatEntries(order)

\* C20: trimLogFile does not rewrite a file it read with at most MAX_LINES
\* lines; one it read with more is rewritten to exactly the last MAX_LINES
\* lines of the content read, in their order.
C20_TrimKeepsLastLines ==
  [][\A c \in 1..Len(logCycles) :
       LET before == Split(logFile.content)
           kept == Split(logCycles'[c].trimmed)
       IN /\ (logCycles[c].pc = "read" /\ logCycles'[c].pc = "return")
               => Len(before) <= MAX_LINES /\ logFile' = logFile
          /\ (logCycles[c].pc = "read" /\ logCycles'[c].pc = "write")
               => /\ Len(before) > MAX_LINES
                  /\ logFile' = logFile
                  /\ Len(kept) = MAX_LINES
                  /\ \A i \in 1..MAX_LINES : kept[i] = before[Len(before) - MAX_LINES + i]
          /\ (logCycles[c].pc = "write" /\ logCycles'[c].pc = "return" /\ ~logCycles'[c].failed)
               => logFile'.content = logCycles[c].trimmed
          /\ (logCycles[c].pc = "return" /\ logCycles'[c].pc = "done")
               => logFile' = logFile]_vars

\* C20 witness: a trim has just rewritten a longer file to MAX_LINES lines.
C20_Witness ==
  \E c \in 1..Len(logCycles) :
    /\ logCycles[c].pc = "return"
    /\ logCycles[c].trimmed # <<>>
    /\ logFile.content = logCycles[c].trimmed
    /\ Len(Split(logFile.content)) = MAX_LINES
    /\ Len(Split(logCycles[c].logContent)) > MAX_LINES

\* ------------------------------------------------------------------------
\* Claims on Spec: the chunks of each child stream
\* ------------------------------------------------------------------------
\* Where a chunk comes from, by its text
OriginOf(text) ==
  IF text # <<>> /\ text[1] = StderrTag THEN "err"
  ELSE IF Len(text) = 5 /\ text[2] = "[Process exited with code " THEN "exit"
       ELSE "out"

\* The chunk sequence downstream of controller.enqueue: the chunks the relay
\* has framed, the chunk of its resolved read, and the queue of the stream
Downstream ==
  [i \in 1..Len(SelectSeq(sse.sent, LAMBDA m : m.type = "output")) |->
     SelectSeq(sse.sent, LAMBDA m : m.type = "output")[i].text]
  \o (IF inbox.kind = "chunk" THEN <<inbox.value>> ELSE <<>>)
  \o stream.queue

OfOrigin(texts, fd) == SelectSeq(texts, LAMBDA text : OriginOf(text) = fd)

\* The read of the loop of fd has completed with a fragment in this step
FragmentRead(fd) == Len(pipes'[fd].buf) < Len(pipes[fd].buf)

\* C21: the chunks of each child stream keep the order in which the reads of
\* that stream completed: a read that completes while the chunk stream is open
\* puts one chunk behind every chunk of its stream that is already emitted,
\* and nothing else adds, removes or moves a chunk of that stream, whatever
\* the other loop does in between.
C21_PerStreamOrderIsReadOrder ==
  [][conn'.state = "connected" =>
       \A fd \in {"out", "err"} :
         LET before == OfOrigin(Downstream, fd)
             after == OfOrigin(Downstream', fd)
         IN IF FragmentRead(fd) /\ CanEnqueue(stream)
            THEN Len(after) = Len(before) + 1 /\ SubSeq(after, 1, Len(before)) = before
            ELSE after = before]_vars

\* C21 witness: the caller was sent the four chunks of a child that wrote to
\* both streams in turn, the two stderr chunks before the two stdout chunks.
C21_Witness ==
  /\ conn.state = "connected"
  /\ sse.pc = "finished"
  /\ Len(sse.sent) = 6
  /\ [i \in 1..4 |-> OriginOf(sse.sent[i].text)] = <<"out", "err", "err", "out">>
  /\ OfOrigin(Downstream, "out") = << <<"one", NL>>, <<"two", NL>> >>
  /\ OfOrigin(Downstream, "err") = << <<StderrTag, "warn", NL>>, <<StderrTag, "late", NL>> >>

\* The chunk that the claim asks for a fragment of fd: the decoded fragment,
\* behind the stderr marker when it was read from stderr
TaggedChunk(fd, fragment) ==
  IF fd = "err" THEN <<"[stderr] ">> \o Decode(readers[fd].pending, fragment).text
  ELSE Decode(readers[fd].pending, fragment).text

\* C22: every fragment read from stderr is emitted as one chunk, '[stderr] '
\* followed by the decoded fragment, every fragment read from stdout as one
\* chunk, the decoded fragment unmodified, and that very chunk text is appended
\* to outputLines.
C22_EveryFragmentEmittedWithItsTag ==
  [][\A fd \in {"out", "err"} :
       FragmentRead(fd) =>
         LET text == TaggedChunk(fd, Head(pipes[fd].buf))
         IN /\ emitted' = Append(emitted, Emitted(fd, text))
            /\ Downstream' = Append(Downstream, text)
            /\ outputLines' = Append(outputLines, text)]_vars

\* ------------------------------------------------------------------------
\* SpecIo: Spec with reads that may fail, those of the child's pipes and
\* those of the chunk stream
\* ------------------------------------------------------------------------
\* await reader.read() rejects: the catch block of the loop writes to the
\* console and the loop ends; what the pipe holds stays unread
ReaderFail(fd) ==
  /\ readers[fd].pc = "reading"
  /\ readers' = [readers EXCEPT ![fd].pc = "readFailed"]
  /\ UNCHANGED <<proc, pipes, wrote, startPc, outputLines, stream, emitted, inbox, serverVars,
                 relayVars, consumer, logVars, bindVars, parseVars, termVars, parked>>

\* The chunk stream becomes errored while the response is streaming: its
\* queue is dropped and the relay's outstanding read rejects
StreamError ==
  /\ stream.state = "readable"
  /\ sse.pc = "waiting"
  /\ stream' = [stream EXCEPT !.state = "errored", !.queue = <<>>, !.pendingRead = FALSE]
  /\ inbox' = IF stream.pendingRead THEN ErrorInbox(StreamFailure) ELSE inbox
  /\ UNCHANGED <<proc, pipes, wrote, readers, startPc, outputLines, emitted, serverVars,
                 relayVars, consumer, logVars, bindVars, parseVars, termVars, parked>>

ReadStdoutFail == ReaderFail("out")

ReadStderrFail == ReaderFail("err")

IoInit ==
  /\ BindIdle /\ ParseIdle /\ TermIdle /\ LogIdle /\ ServerStarted /\ PipelineIdle /\ RelayIdle /\ ConsumerIdle

IoNext ==
  \/ ExecuteArrive
  \/ ExecuteRespond
  \/ ChildWrite
  \/ ChildExit
  \/ ReadStdout
  \/ ReadStderr
  \/ ReadStdoutFail
  \/ ReadStderrFail
  \/ StreamError
  \/ StartAfterExit
  \/ RelayTurn
  \/ ClientDisconnect
  \/ LogAppendStep
  \/ LogExistsStep
  \/ LogReadStep
  \/ LogWriteStep
  \/ LogReturnStep

SpecIo == IoInit /\ [][IoNext]_vars

OtherStream(fd) == IF fd = "out" THEN "err" ELSE "out"

\* The chunks of fd sent to the caller, the stderr marker removed, concatenated
RECURSIVE SentText(_, _)
SentText(sent, fd) ==
  IF sent = <<>> THEN <<>>
  ELSE (IF Head(sent).type # "output" \/ OriginOf(Head(sent).text) # fd THEN <<>>
        ELSE IF fd = "err" THEN Tail(Head(sent).text) ELSE Head(sent).text)
       \o SentText(Tail(sent), fd)

\* C23: when a read of one child stream has failed, the response that has
\* ended (the caller connected throughout) carries every fragment the child
\* wrote on the other stream, then the exit-code chunk and the done message.
C23_OtherStreamFullyDeliveredAfterReadFailure ==
  \A fd \in {"out", "err"} :
    (readers[fd].pc = "readFailed" /\ conn.state = "connected" /\ sse.pc = "finished") =>
      /\ Encode(SentText(sse.sent, OtherStream(fd))) = wrote[OtherStream(fd)]
      /\ Len(sse.sent) >= 2
      /\ IsExitEvent(sse.sent[Len(sse.sent) - 1])
      /\ sse.sent[Len(sse.sent)].type = "done"

\* ------------------------------------------------------------------------
\* Claims on Spec: a child that cannot be started
\* ------------------------------------------------------------------------
\* C24: when spawn fails the caller gets a streamed response that carries an
\* error message, and logExecution is called for the failed execution.
C24_SpawnFailureStreamedAndLogged ==
  http.error = SpawnError =>
    /\ http.status = 200
    /\ \E i \in 1..Len(sse.sent) : sse.sent[i].type = "error"
    /\ Len(logCycles) >= 1

\* ------------------------------------------------------------------------
\* Claims on SpecIo: a failing read of the chunk stream
\* ------------------------------------------------------------------------
\* C25: when the relay's read of the chunk stream fails while the caller is
\* connected, the response keeps every message sent before, all of them output
\* messages, gets exactly one error message with a description after them, and
\* is closed; no done message or anything else is sent afterwards.
C25_ReadFailureGivesOneErrorNoDone ==
  [][/\ (inbox.kind = "error" /\ inbox'.kind # "error" /\ conn.state = "connected") =>
          /\ Len(sse'.sent) = Len(sse.sent) + 1
          /\ SubSeq(sse'.sent, 1, Len(sse.sent)) = sse.sent
          /\ \A i \in 1..Len(sse.sent) : SseMessage(sse.sent[i].data).type = "output"
          /\ SseMessage(sse'.sent[Len(sse'.sent)].data) = [type |-> "error", text |-> inbox.value]
          /\ inbox.value # <<>>
          /\ sse'.state = "closed"
     /\ (sse.state = "closed" /\ stream.state = "errored") => sse'.sent = sse.sent /\ sse'.state = "closed"]_vars

\* C25 witness: the response ended with an error message after two relayed
\* chunks, the child still running.
C25_Witness ==
  /\ conn.state = "connected"
  /\ sse.state = "closed"
  /\ stream.state = "errored"
  /\ Len(sse.sent) = 3
  /\ [i \in 1..3 |-> sse.sent[i].type] = <<"output", "output", "error">>
  /\ proc.state = "running"

\* ------------------------------------------------------------------------
\* SpecExecLive: executeScript called directly, with the progress the runtime
\* gives: a resolved read of a pipe is taken up by its loop, and the signal of
\* proc.kill() ends the child. logExecution is called as in SpecExec; the
\* steps of its append and trim touch the log file only and are left out.
\* ------------------------------------------------------------------------
ExecLiveInit ==
  /\ BindIdle /\ ParseIdle /\ TermIdle /\ LogIdle /\ ServerStarted /\ PipelineIdle /\ RelayIdle /\ ConsumerIdle

ExecLiveNext ==
  \/ ExecCall
  \/ ChildWrite
  \/ ChildExit
  \/ ChildKilled
  \/ ReadStdout
  \/ ReadStderr
  \/ StartAfterExit
  \/ ConsumerRead
  \/ ConsumerTake
  \/ ConsumerCancel

SpecExecLive ==
  /\ ExecLiveInit
  /\ [][ExecLiveNext]_vars
  /\ WF_vars(ReadStdout)
  /\ WF_vars(ReadStderr)
  /\ WF_vars(ChildKilled)

\* Neither loop is waiting on a read: each has seen end of file or has ended
\* in its catch block
ReadersTerminated == \A fd \in {"out", "err"} : readers[fd].pc \in {"done", "failed", "readFailed"}

LiveInit ==
  /\ BindIdle /\ ParseIdle /\ TermIdle /\ LogIdle /\ ServerStarted /\ PipelineIdle /\ RelayIdle /\ ConsumerIdle

LiveNext ==
  \/ ExecuteArrive
  \/ ExecuteRespond
  \/ ChildWrite
  \/ ChildExit
  \/ ReadStdout
  \/ ReadStderr
  \/ StartAfterExit
  \/ RelayTurn
  \/ ClientDisconnect
  \/ LogAppendStep
  \/ LogExistsStep
  \/ LogReadStep
  \/ LogWriteStep
  \/ LogReturnStep

SpecLive ==
  /\ LiveInit
  /\ [][LiveNext]_vars
  /\ WF_vars(StartAfterExit)
  /\ WF_vars(RelayTurn)

\* The response has ended with the exit-code chunk of the child's code and
\* then the done message
EndedWithExitCodeThenDone ==
  /\ sse.state = "closed"
  /\ Len(sse.sent) >= 2
  /\ SseMessage(sse.sent[Len(sse.sent) - 1].data)
       = [type |-> "output", text |-> <<NL, "[Process exited with code ", ToString(proc.ended.code), "]", NL>>]
  /\ SseMessage(sse.sent[Len(sse.sent)].data) = [type |-> "done", text |-> <<>>]

\* C27: when the child has exited with a code, zero or not, then unless the
\* caller severs the connection the response eventually carries the exit-code
\* chunk with that code, the done message right after it, and has ended.
C27_ExitCodeThenDoneEventually ==
  (proc.state = "exited" /\ proc.ended.how = "exit")
    ~> (conn.state = "severed" \/ EndedWithExitCodeThenDone)

\* C27 witness: a connected caller has the exit-code chunk of a child that
\* exited with code 1, and the done message.
C27_Witness ==
  /\ conn.state = "connected"
  /\ proc.ended = ExitedWith(1)
  /\ EndedWithExitCodeThenDone

\* ------------------------------------------------------------------------
\* Claims on SpecExec: the ledger entry of a cancelled execution
\* ------------------------------------------------------------------------
\* C28: when the consumer's cancel reaches cancel() of the chunk stream, the
\* child has been sent the kill by the time logExecution is called; the entry
\* then built ends its transcript with '[Process killed by user]' and has
\* 'N/A' as exit code; and no entry ever changes after it was built, so no
\* exit-code chunk or later output is added to it.
C28_CancelledEntryIsFinal ==
  [][/\ (consumer'.cancelled /\ ~consumer.cancelled /\ stream.state = "readable") =>
          /\ proc'.killed
          /\ Len(logCycles') = Len(logCycles) + 1
          /\ LET lines == Split(logCycles'[Len(logCycles')].logContent)
             IN /\ lines[5] = <<"Exit Code: ", "N/A">>
                /\ lines[Len(lines) - 2] = <<"[Process killed by user]">>
                /\ lines[Len(lines) - 1] = <<EQ80>>
     /\ \A c \in 1..Len(logCycles) :
          Len(logCycles') >= c /\ logCycles'[c].logContent = logCycles[c].logContent]_vars

\* C28 witness: the consumer cancelled while the child was running; the child
\* then ended by the signal, start() resumed and pushed its messages to
\* outputLines, and the cancelled entry is in the log file as it was built.
C28_Witness ==
  /\ consumer.cancelled
  /\ proc.ended = EndedBySignal
  /\ startPc = "rejected"
  /\ Len(outputLines) >= 3
  /\ Len(logCycles) = 1
  /\ logCycles[1].pc = "done"
  /\ IsCancelledEntry(logCycles[1])
  /\ logFile.content = logCycles[1].logContent

\* ------------------------------------------------------------------------
\* SpecRefresh: loadScripts step by step. A discovery pass lists the
\* directory, reads one file per step into its own array, and its result
\* replaces scriptsCache when it returns; passes overlap with each other, with
\* changes of the directory and with execute requests.
\* ------------------------------------------------------------------------
BuildFile == AnnotatedFile("build", ".js", "Build", "Builds the app", "development", "browser")

\* readdir gives the names in a fixed order
RefreshListing == <<BuildFile, HelloFile>>

Listing(dir) == SelectSeq(RefreshListing, LAMBDA f : f \in dir)

Range(seq) == {seq[i] : i \in 1..Len(seq)}

\* What discoverScripts returns over a directory that does not change
DiscoverSeq(dir) ==
  LET files == SelectSeq(Listing(dir), LAMBDA f : IsScriptFile(f.fileName) /\ HasMetadata(f))
  IN [i \in 1..Len(files) |-> ScriptMetadata(files[i])]

\* A pass that pushes to the array the cache refers to
CacheSharesArray(cache, scripts) == Range(scripts)

\* scripts.push(metadata) goes to the array of the pass: the cache is untouched
CacheAfterPush(cache, scripts) == cache

\* await loadScripts() at startup is the first pass; it has returned
RefreshInit ==
  /\ scriptsDir \in SUBSET Range(RefreshListing)
  /\ scriptsCache = Range(DiscoverSeq(scriptsDir))
  /\ passes = << [pc |-> "done", files |-> <<>>, scripts |-> DiscoverSeq(scriptsDir)] >>
  /\ http = IdleHttp
  /\ BindIdle /\ ParseIdle /\ TermIdle /\ LogIdle /\ PipelineIdle /\ RelayIdle /\ ConsumerIdle

\* GET /api/scripts: loadScripts is called
RefreshArrive ==
  /\ Len(passes) < MaxPasses + 1
  /\ passes' = Append(passes, [pc |-> "readdir", files |-> <<>>, scripts |-> <<>>])
  /\ UNCHANGED <<scriptsDir, scriptsCache, http, pipeVars, relayVars, consumer, logVars, bindVars, parseVars, termVars>>

\* files = await readdir(scriptsDir); when it throws the catch block is
\* entered and the pass returns its empty array
PassReaddir ==
  /\ \E p \in 1..Len(passes) :
       /\ passes[p].pc = "readdir"
       /\ \/ passes' = [passes EXCEPT ![p].files = Listing(scriptsDir),
                                      ![p].pc = IF Listing(scriptsDir) = <<>> THEN "return"
                                                ELSE "loop"]
          \/ passes' = [passes EXCEPT ![p].pc = "return"]
  /\ UNCHANGED <<scriptsDir, scriptsCache, http, pipeVars, relayVars, consumer, logVars, bindVars, parseVars, termVars>>

\* One turn of the loop over files: a file of another extension is skipped;
\* else the file is read and parsed (null when it is gone or lacks a tag) and
\* its metadata pushed
PassParse ==
  /\ \E p \in 1..Len(passes) :
       /\ passes[p].pc = "loop"
       /\ LET file == Head(passes[p].files)
              scripts == IF IsScriptFile(file.fileName) /\ file \in scriptsDir /\ HasMetadata(file)
                         THEN Append(passes[p].scripts, ScriptMetadata(file))
                         ELSE passes[p].scripts
          IN /\ passes' = [passes EXCEPT ![p].files = Tail(@),
                                         ![p].scripts = scripts,
                                         ![p].pc = IF Tail(passes[p].files) = <<>> THEN "return"
                                                   ELSE "loop"]
             /\ scriptsCache' = CacheAfterPush(scriptsCache, scripts)
  /\ UNCHANGED <<scriptsDir, http, pipeVars, relayVars, consumer, logVars, bindVars, parseVars, termVars>>

\* scriptsCache = await discoverScripts(SCRIPTS_DIR): the returned array
\* replaces the cache
PassReturn ==
  /\ \E p \in 1..Len(passes) :
       /\ passes[p].pc = "return"
       /\ scriptsCache' = Range(passes[p].scripts)
       /\ passes' = [passes EXCEPT ![p].pc = "done"]
  /\ UNCHANGED <<scriptsDir, http, pipeVars, relayVars, consumer, logVars, bindVars, parseVars, termVars>>

RefreshFiles == Range(RefreshListing)

RefreshDirChange == DirChangeAmong(RefreshFiles)

\* Execute requests for a script and for an unknown name; the body of the
\* request is not JSON, so nothing is spawned
RefreshPaths == {<<"hello", ".sh">>, <<"build", ".js">>}

InvalidBodies == {[valid |-> FALSE, params |-> <<>>]}

RefreshExecuteArrive == ExecuteArriveWith(RefreshPaths, InvalidBodies)

NoPrograms == {}

RefreshExecuteRespond == ExecuteRespondWith(NoPrograms)

RefreshNext ==
  \/ RefreshDirChange
  \/ RefreshArrive
  \/ PassReaddir
  \/ PassParse
  \/ PassReturn
  \/ RefreshExecuteArrive
  \/ RefreshExecuteRespond

SpecRefresh == RefreshInit /\ [][RefreshNext]_vars

\* The cache is the whole result of a pass that has returned
CacheIsResultOfOnePass ==
  \E p \in 1..Len(passes) :
    /\ passes[p].pc = "done"
    /\ passes[p].files = <<>>
    /\ scriptsCache = Range(passes[p].scripts)

\* C29: the script cache is at every moment the whole result of one pass
\* that has returned (the startup pass or a refresh); it changes only when a
\* pass returns, to that pass's result; and the lookup of an execute request
\* is made in such a result, never in the array of a pass still under way.
C29_CacheIsWholeResultOfOnePass ==
  [][/\ CacheIsResultOfOnePass
     /\ CacheIsResultOfOnePass'
     /\ scriptsCache' # scriptsCache =>
          \E p \in 1..Len(passes) :
            /\ passes[p].pc = "return" /\ passes'[p].pc = "done"
            /\ scriptsCache' = Range(passes[p].scripts)
     /\ (http' # http /\ http.phase \in {"idle", "responded"}) =>
          \E p \in 1..Len(passes) :
            /\ passes[p].pc = "done"
            /\ http'.script = FindScript(Range(passes[p].scripts), ScriptNameOf(http'.path))
            /\ http'.status = 404 <=> http'.script = {}]_vars

\* C29 witness: an execute request was looked up while a refresh was under
\* way whose array already held a script that the cache does not have.
C29_Witness ==
  /\ http.phase = "body"
  /\ \E p \in 1..Len(passes) :
       /\ passes[p].pc = "loop"
       /\ passes[p].scripts # <<>>
       /\ ~(Range(passes[p].scripts) \subseteq scriptsCache)
       /\ \E q \in 1..Len(passes) : q # p /\ passes[q].pc \in {"loop", "return"}

\* ------------------------------------------------------------------------
\* SpecPair: two calls of executeScript that run at the same time. Each call
\* has its own proc, outputLines, chunk stream, reader loops and consumer
\* (locals of the call); logExecution and the log are shared. The actions act
\* on the execution held in proc, pipes, ..., consumer; the other one is kept
\* in parked, and Switch exchanges the two, so that the steps of the two
\* executions interleave in every order.
\* ------------------------------------------------------------------------
AdaOnly == [k \in {"name"} |-> Str("Ada")]

\* One execution fails (a message on stderr, exit code 1) and may be
\* cancelled by its consumer; the other greets on stdout and exits 0
PairCalls ==
  { [params |-> GreetAda, program |-> <<Write("err", <<"oops", NL>>), Exit(1)>>],
    [params |-> AdaOnly, program |-> <<Write("out", <<"Hello, Ada!", NL>>), Exit(0)>>] }

\* An outputLines array that all calls would share
SharedOutputLines(mine, theirs) == mine

\* const outputLines: string[] = [] is created by each call: after a switch
\* the array at hand is that of the other execution
OwnOutputLines(mine, theirs) == theirs

PairCall ==
  /\ proc.state = "none"
  /\ consumer.pc = "none"
  /\ \E call \in PairCalls :
       /\ parked.proc.state # "none" => parked.proc.params # call.params
       /\ LET script == ScriptMetadata(HelloFile)
              built == BuildArgs(script.params, call.params)
          IN Launched(script, call.params, built.args, call.program)
  /\ stream' = NewStream
  /\ consumer' = [consumer EXCEPT !.pc = "idle"]
  /\ UNCHANGED <<serverVars, relayVars, logVars, bindVars, parseVars, termVars, parked>>

\* The event loop turns to the other execution
Switch ==
  /\ proc.state # "none"
  /\ parked' = [proc |-> proc, pipes |-> pipes, wrote |-> wrote, readers |-> readers,
                startPc |-> startPc, outputLines |-> outputLines, stream |-> stream,
                emitted |-> emitted, inbox |-> inbox, consumer |-> consumer]
  /\ proc' = parked.proc
  /\ pipes' = parked.pipes
  /\ wrote' = parked.wrote
  /\ readers' = parked.readers
  /\ startPc' = parked.startPc
  /\ outputLines' = OwnOutputLines(outputLines, parked.outputLines)
  /\ stream' = parked.stream
  /\ emitted' = parked.emitted
  /\ inbox' = parked.inbox
  /\ consumer' = parked.consumer
  /\ UNCHANGED <<serverVars, relayVars, logVars, bindVars, parseVars, termVars>>

\* Only the consumer of the failing execution cancels
PairCancel == proc.params = GreetAda /\ ConsumerCancel

PairInit ==
  /\ BindIdle /\ ParseIdle /\ TermIdle /\ LogIdle /\ ServerStarted /\ PipelineIdle /\ RelayIdle /\ ConsumerIdle

PairNext ==
  \/ PairCall
  \/ Switch
  \/ ChildWrite
  \/ ChildExit
  \/ ChildKilled
  \/ ReadStdout
  \/ ReadStderr
  \/ StartAfterExit
  \/ ConsumerRead
  \/ ConsumerTake
  \/ PairCancel

SpecPair == PairInit /\ [][PairNext]_vars

\* The execution at hand, as a record like parked
AtHand ==
  [proc |-> proc, pipes |-> pipes, wrote |-> wrote, readers |-> readers, startPc |-> startPc,
   outputLines |-> outputLines, stream |-> stream, emitted |-> emitted, inbox |-> inbox,
   consumer |-> consumer]

\* The chunks of fd that the consumer of an execution received, the stderr
\* marker removed, concatenated
RECURSIVE ReceivedText(_, _)
ReceivedText(received, fd) ==
  IF received = <<>> THEN <<>>
  ELSE (IF Head(received).kind # "chunk" \/ OriginOf(Head(received).value) # fd THEN <<>>
        ELSE IF fd = "err" THEN Tail(Head(received).value) ELSE Head(received).value)
       \o ReceivedText(Tail(received), fd)

IsPrefix(s, t) == Len(s) <= Len(t) /\ SubSeq(t, 1, Len(s)) = s

\* The execution is the greeting one (resp. the failing one) and has started
IsGreeting(e) == e.proc.state # "none" /\ e.proc.params = AdaOnly

IsFailing(e) == e.proc.state # "none" /\ e.proc.params = GreetAda

\* What the greeting execution gives when it runs alone and its consumer
\* does not cancel: the chunks it can have enqueued
AloneChunks ==
  { <<>>,
    << <<"Hello, Ada!", NL>> >>,
    << <<NL, "[Process exited with code ", "0", "]", NL>> >>,
    << <<"Hello, Ada!", NL>>, <<NL, "[Process exited with code ", "0", "]", NL>> >> }

\* The greeting execution g is as it would be alone (see C30)
AsIfAlone(g) ==
  IsGreeting(g) =>
    LET texts == [i \in 1..Len(g.emitted) |-> g.emitted[i].text]
    IN /\ texts \in AloneChunks
       /\ IsPrefix(Encode(ReceivedText(g.consumer.received, "out")), g.wrote["out"])
       /\ ReceivedText(g.consumer.received, "err") = <<>>
       /\ \A i \in 1..Len(g.consumer.received) :
            g.consumer.received[i].kind = "chunk" =>
              \E j \in 1..Len(texts) : texts[j] = g.consumer.received[i].value
       /\ \A i \in 1..Len(g.outputLines) :
            g.outputLines[i] \in {<<"Hello, Ada!", NL>>, ExitMessage(Num(0))}
       /\ ~g.proc.killed
       /\ g.startPc # "rejected"
       /\ g.startPc = "done" =>
            /\ Cardinality({c \in 1..Len(logCycles) :
                  logCycles[c].logContent = LogContent("Hello World", AdaOnly, texts, Num(0))}) = 1
            /\ \A c \in 1..Len(logCycles) :
                 Split(logCycles[c].logContent)[4] = <<"Parameters: ">> \o JsonStringify(AdaOnly)
                   => logCycles[c].logContent = LogContent("Hello World", AdaOnly, texts, Num(0))

\* C30: whatever the failing execution does (stderr output, exit code 1,
\* cancellation by its consumer), the greeting execution running at the same
\* time is as if alone: its consumer receives only what its own child wrote
\* and its own exit-code chunk, with code 0; it is never killed or logged as
\* cancelled; and once it has completed there is one ledger entry with its
\* name and parameters, whose transcript is its own chunks and whose exit code
\* is 0.
C30_OtherExecutionAsIfAlone == AsIfAlone(AtHand) /\ AsIfAlone(parked)

\* C30 witness: the failing execution was cancelled while both were running,
\* and the greeting execution has completed and is logged with both its chunks.
C30_Witness ==
  LET g == IF IsGreeting(parked) THEN parked ELSE AtHand
      f == IF IsGreeting(parked) THEN AtHand ELSE parked
  IN /\ IsGreeting(g)
     /\ IsFailing(f)
     /\ f.proc.killed
     /\ f.consumer.cancelled
     /\ Len(f.outputLines) >= 2
     /\ g.startPc = "done"
     /\ Len(g.emitted) = 2
     /\ g.consumer.pc = "ended"
     /\ Len(logCycles) = 2
     /\ IsCancelledEntry(logCycles[1])


\* ------------------------------------------------------------------------
\* SpecParse: parseParam on the text of an @param tag
\* ------------------------------------------------------------------------
\* Text is a sequence of tokens: " ", ":" and "," are the separators the
\* parser splits on, any other token is a run of other characters.

\* The pieces of text.split(sep) when text holds one more piece from i on,
\* of which piece has been read
RECURSIVE SplitOnFrom(_, _, _, _)
SplitOnFrom(text, sep, i, piece) ==
  IF i > Len(text) THEN <<piece>>
  ELSE IF text[i] = sep THEN <<piece>> \o SplitOnFrom(text, sep, i + 1, <<>>)
  ELSE SplitOnFrom(text, sep, i + 1, Append(piece, text[i]))

\* text.split(sep)
SplitOn(text, sep) == SplitOnFrom(text, sep, 1, <<>>)

\* pieces.slice(from - 1).join(sep)
RECURSIVE JoinWithFrom(_, _, _)
JoinWithFrom(pieces, sep, from) ==
  IF from > Len(pieces) THEN <<>>
  ELSE IF from = Len(pieces) THEN pieces[from]
  ELSE pieces[from] \o <<sep>> \o JoinWithFrom(pieces, sep, from + 1)

\* A ScriptParam; options is undefined unless hasOptions
ScriptParam(name, type, required, description, hasOptions, options) ==
  [name |-> name, type |-> type, required |-> required, description |-> description,
   hasOptions |-> hasOptions, options |-> options]

\* The fourth piece of the definition, undefined (here empty) without one
OptionsStr(defParts) == IF Len(defParts) >= 4 THEN defParts[4] ELSE <<>>

\* if (optionsStr && type === 'select')
WithOptions(defParts) ==
  OptionsStr(defParts) # <<>> /\ defParts[2] = <<"select">>

\* parseParam: no parameter (null) or one
ParseParam(value) ==
  LET parts == SplitOn(value, " ")
      definition == parts[1]
      description == JoinWithFrom(parts, " ", 2)
      defParts == SplitOn(definition, ":")
  IN IF Len(defParts) < 3 THEN <<>>
     ELSE << ScriptParam(defParts[1], defParts[2], defParts[3] = <<"required">>, description,
                         WithOptions(defParts),
                         IF WithOptions(defParts) THEN SplitOn(OptionsStr(defParts), ",")
                         ELSE <<>>) >>

\* The definitions tried: each type, each requirement word, with and without
\* a fourth piece, and the shorter ones
ParamTypes == {"string", "number", "boolean", "select"}

RequiredWords == {"required", "optional", "yes"}

OptionTexts ==
  { <<>>, <<":">>, <<":", "npm">>, <<":", "npm", ",", "yarn", ",", "pnpm">>, <<":", ",">>,
    <<":", "npm", ":", "yarn">> }

Descriptions == { <<>>, <<" ", "Manager">>, <<" ", "Package", " ", "manager">>, <<" ", "a:b">> }

ParamDefinitions ==
  {<<"manager", ":", t, ":", r>> \o o : t \in ParamTypes, r \in RequiredWords, o \in OptionTexts}
    \cup {<<"manager">>, <<"manager", ":", "select">>, <<":", ":">>}

ParamValues == {d \o text : d \in ParamDefinitions, text \in Descriptions}

ParseInit ==
  /\ paramValue \in ParamValues
  /\ paramResult = [pc |-> "call", param |-> <<>>]
  /\ BindIdle /\ TermIdle /\ LogIdle /\ ServerIdle /\ PipelineIdle /\ RelayIdle /\ ConsumerIdle

\* case 'param' of parseScriptMetadata: the parameter that is pushed, if any
ParseParamCall ==
  /\ paramResult.pc = "call"
  /\ paramResult' = [pc |-> "done", param |-> ParseParam(paramValue)]
  /\ UNCHANGED <<paramValue, bindVars, termVars, logVars, serverVars, pipeVars, relayVars,
                 consumer>>

SpecParse == ParseInit /\ [][ParseParamCall]_vars

\* C31: every parameter of type select that the parser produces carries a
\* non-empty options list.
C31_SelectParamHasOptions ==
  \A i \in 1..Len(paramResult.param) :
    paramResult.param[i].type = <<"select">>
      => paramResult.param[i].hasOptions /\ paramResult.param[i].options # <<>>


\* ------------------------------------------------------------------------
\* The exit code of the ledger entry and of the exit-code chunk
\* ------------------------------------------------------------------------
\* The token after `label` in a ledger entry, for each place label occurs
After(logContent, label) ==
  {logContent[i + 1] : i \in {k \in 1..(Len(logContent) - 1) : logContent[k] = label}}

\* C32: in the ledger entry of every completed execution the code of the
\* 'Exit Code' line is the code of the '[Process exited with code N]' chunk
\* of the same execution.
C32_LedgerExitCodeIsChunkExitCode ==
  \A c \in 1..Len(logCycles) :
    \A chunkCode \in After(logCycles[c].logContent, "[Process exited with code ") :
      After(logCycles[c].logContent, "Exit Code: ") = {chunkCode}


\* ------------------------------------------------------------------------
\* The values false and 0 in the argument building (on SpecBind)
\* ------------------------------------------------------------------------
\* The argument the claim expects for false and for 0
FalsyArgument(value) == IF value = Num(0) THEN "0" ELSE "false"

\* The declared parameters (by position) whose value is false or 0
FalsyPositions(decl, params) ==
  {i \in 1..Len(decl) : decl[i].name \in DOMAIN params
                          /\ params[decl[i].name] \in {Num(0), Bool(FALSE)}}

\* The declared parameters whose value is anything but undefined, null or ''
SuppliedPositions(decl, params) ==
  {i \in 1..Len(decl) : decl[i].name \in DOMAIN params
                          /\ params[decl[i].name] \notin {Null, Str("")}}

\* C33: false and 0 are present values. A call fails only with the error of
\* a required parameter whose value is neither of them; and when it succeeds
\* every declared parameter whose value is false or 0 gives the argument
\* 'false' or '0', at the place its position among the supplied parameters
\* gives it.
C33_FalseAndZeroArePresent ==
  bindPc = "done" =>
    LET falsy == FalsyPositions(bindParamsDecl, bindParams)
        supplied == SuppliedPositions(bindParamsDecl, bindParams)
    IN /\ ~bindResult.ok =>
            \A i \in falsy : bindResult.error # MissingError(bindParamsDecl[i].name)
       /\ (\A i \in 1..Len(bindParamsDecl) : bindParamsDecl[i].required => i \in falsy)
            => bindResult.ok
       /\ bindResult.ok =>
            \A i \in falsy :
              /\ Cardinality({j \in supplied : j <= i}) <= Len(bindResult.args)
              /\ bindResult.args[Cardinality({j \in supplied : j <= i})]
                   = FalsyArgument(bindParams[bindParamsDecl[i].name])

\* C33 witness: a call with two required parameters, given false and 0, has
\* returned the arguments 'false' and '0'.
C33_Witness ==
  /\ bindPc = "done"
  /\ Len(bindParamsDecl) = 2
  /\ bindParamsDecl[1].required /\ bindParamsDecl[2].required
  /\ DOMAIN bindParams = {"name", "excited"}
  /\ bindParams[bindParamsDecl[1].name] = Bool(FALSE)
  /\ bindParams[bindParamsDecl[2].name] = Num(0)
  /\ bindResult = Returned(<<"false", "0">>)


\* ------------------------------------------------------------------------
\* SpecLaunch: the scripts of a discovery pass over files of every extension
\* are executed
\* ------------------------------------------------------------------------
LaunchInit ==
  /\ scriptsDir \in SUBSET DiscoverFiles
  /\ scriptsCache = {}
  /\ http = IdleHttp
  /\ passes = <<>>
  /\ BindIdle /\ ParseIdle /\ TermIdle /\ LogIdle /\ PipelineIdle /\ RelayIdle /\ ConsumerIdle

\* Requests for every file of the directory, script or not
LaunchPaths == {f.fileName : f \in DiscoverFiles}

LaunchArrive == ExecuteArriveWith(LaunchPaths, GreetAdaBodies)

\* The child of a launched script exits at once
LaunchPrograms == {<<Exit(0)>>}

LaunchRespond == ExecuteRespondWith(LaunchPrograms)

LaunchNext ==
  \/ ListScripts
  \/ LaunchArrive
  \/ LaunchRespond

SpecLaunch == LaunchInit /\ [][LaunchNext]_vars

\* The interpreter the claim names for a file name
InterpreterOf(fileName) ==
  IF fileName[Len(fileName)] = ".sh" THEN <<"bash">>
  ELSE IF fileName[Len(fileName)] \in {".js", ".ts"} THEN <<"bun", "run">>
  ELSE <<>>

\* C34: every descriptor of the discovered set can be launched: its file
\* name has an interpreter (bash for .sh, bun run for .js and .ts), a request
\* for it is never answered with 'Unsupported script type', and the child
\* spawned for it runs the descriptor's file under that interpreter.
C34_DiscoveredScriptsHaveInterpreter ==
  /\ \A s \in scriptsCache : InterpreterOf(s.fileName) # <<>>
  /\ http.phase = "responded" =>
       \A f \in DiscoverFiles : http.error # UnsupportedError(f.fileName)
  /\ proc.state = "running" =>
       \E s \in scriptsCache :
         /\ s.name = proc.scriptName
         /\ IsPrefix(InterpreterOf(s.fileName) \o s.filePath, proc.cmd)

\* C34 witness: with a .sh, a .js and a .ts script discovered beside files
\* that are not scripts, the child of the .ts script runs under bun.
C34_Witness ==
  /\ {s.fileName : s \in scriptsCache}
       = {<<"hello", ".sh">>, <<"build", ".js">>, <<"deploy", ".ts">>}
  /\ \E f \in scriptsDir : f.fileName = <<"tool", ".py">>
  /\ proc.state = "running"
  /\ proc.cmd = <<"bun", "run", "scripts/", "deploy", ".ts">>


\* ------------------------------------------------------------------------
\* SpecTerm: the browser runner (ScriptTerminal.vue): Run and Stop clicks,
\* and the read loop of executeScript over the streamed response
\* ------------------------------------------------------------------------
\* The body of the response to the k-th request, as the server frames it: the
\* script prints the number of its run, then the exit-code chunk and the
\* done message follow.
RunText(k) == <<"run ", ToString(k), NL>>

ResponseTexts(k) == <<RunText(k), ExitMessage(Num(0))>>

ResponseBody(k) == SseOutput(RunText(k)) \o SseOutput(ExitMessage(Num(0))) \o SseDone

\* chunk.split('\n\n'), reading chunk from i on with `piece` read so far
RECURSIVE SplitMessagesFrom(_, _, _)
SplitMessagesFrom(chunk, i, piece) ==
  IF i > Len(chunk) THEN <<piece>>
  ELSE IF i < Len(chunk) /\ chunk[i] = NL /\ chunk[i + 1] = NL
       THEN <<piece>> \o SplitMessagesFrom(chunk, i + 2, <<>>)
       ELSE SplitMessagesFrom(chunk, i + 1, Append(piece, chunk[i]))

SplitMessages(chunk) == SplitMessagesFrom(chunk, 1, <<>>)

\* JSON.parse ignores white space around the value
RECURSIVE TrimEnd(_)
TrimEnd(json) ==
  IF json # <<>> /\ json[Len(json)] = NL THEN TrimEnd(SubSeq(json, 1, Len(json) - 1)) ELSE json

\* JSON.parse(line.slice(6)) for the objects the server sends; anything else
\* is text that JSON.parse throws on
JsonParse(text) ==
  LET json == TrimEnd(text)
  IN IF json = <<"{", "\"done\"", ":", "true", "}">>
     THEN [type |-> "done", text |-> <<>>]
     ELSE IF /\ Len(json) >= 6
             /\ <<json[1], json[3], json[4]>> = <<"{", ":", "\"">>
             /\ json[2] \in {"\"output\"", "\"error\""}
             /\ SubSeq(json, Len(json) - 1, Len(json)) = <<"\"", "}">>
             /\ \A i \in 5..(Len(json) - 2) : json[i] \notin {NL, "\"", "{", "}"}
          THEN [type |-> IF json[2] = "\"output\"" THEN "output" ELSE "error",
                text |-> [i \in 1..(Len(json) - 6) |-> JsonUnescape(json[i + 4])]]
          ELSE [type |-> "threw", text |-> <<>>]

\* error.message of the SyntaxError of JSON.parse
JsonSyntaxError == <<"JSON Parse error: Unexpected EOF">>

\* `[Error] ${message}`
ErrorLine(message) == <<"[Error] ">> \o message

\* '\n[Script stopped by user]'
StopNotice == <<NL, "[Script stopped by user]">>

\* The for loop over the lines of a chunk, from its first line still to do
\* up to its first await (scrollToBottom after an output line), its end, or
\* the throw of JSON.parse, which the catch of executeScript handles
RECURSIVE ForLines(_, _, _)
ForLines(lines, out, running) ==
  IF lines = <<>> THEN [pc |-> "read", lines |-> <<>>, out |-> out, running |-> running]
  ELSE IF Head(lines) = <<>> \/ Head(lines)[1] # "data: "
       THEN ForLines(Tail(lines), out, running)
       ELSE LET data == JsonParse(Tail(Head(lines)))
            IN CASE data.type = "threw" ->
                      [pc |-> "ended", lines |-> <<>>,
                       out |-> Append(out, ErrorLine(JsonSyntaxError)), running |-> FALSE]
                 [] data.type = "output" /\ data.text # <<>> ->
                      [pc |-> "scroll", lines |-> Tail(lines),
                       out |-> Append(out, data.text), running |-> running]
                 [] data.type = "done" -> ForLines(Tail(lines), out, FALSE)
                 [] data.type = "error" /\ data.text # <<>> ->
                      ForLines(Tail(lines), Append(out, ErrorLine(data.text)), FALSE)
                 [] OTHER -> ForLines(Tail(lines), out, running)

\* One call of executeScript of the component: where it stands, the bytes of
\* its response that the transport has not delivered yet, and the lines of
\* the chunk at hand still to do
NewRun(k) == [id |-> k, pc |-> "fetch", wire |-> <<>>, lines |-> <<>>]

otherVars == <<bindVars, parseVars, logVars, serverVars, pipeVars, relayVars, consumer>>

\* Run is clicked: executeScript up to its await of fetch; a click while
\* isRunning returns at once
ExecuteScriptClick ==
  /\ ~isRunning
  /\ Len(runs) < MaxRuns
  /\ isRunning' = TRUE
  /\ outputValue' = <<>>
  /\ runs' = Append(runs, NewRun(Len(runs) + 1))
  /\ UNCHANGED otherVars

\* fetch resolves: with the streamed response, whose first read is issued,
\* or with a response that is not ok, whose error is displayed
FetchResolved ==
  /\ \E r \in 1..Len(runs) :
       /\ runs[r].pc = "fetch"
       /\ \/ /\ runs' = [runs EXCEPT ![r].pc = "read", ![r].wire = ResponseBody(runs[r].id)]
             /\ UNCHANGED <<outputValue, isRunning>>
          \/ /\ runs' = [runs EXCEPT ![r].pc = "ended"]
             /\ outputValue' = Append(outputValue, ErrorLine(<<"Script not found">>))
             /\ isRunning' = FALSE
  /\ UNCHANGED otherVars

\* reader.read() resolves: done when the whole body was delivered, else with
\* the bytes the transport hands over, any non-empty prefix of what is left;
\* the chunk is split and its lines are worked on up to the first await
ReadResolved ==
  /\ \E r \in 1..Len(runs) :
       /\ runs[r].pc = "read"
       /\ IF runs[r].wire = <<>>
          THEN /\ runs' = [runs EXCEPT ![r].pc = "ended"]
               /\ UNCHANGED <<outputValue, isRunning>>
          ELSE \E n \in 1..Len(runs[r].wire) :
                 LET chunk == SubSeq(runs[r].wire, 1, n)
                     rest == SubSeq(runs[r].wire, n + 1, Len(runs[r].wire))
                     turn == ForLines(SplitMessages(chunk), outputValue, isRunning)
                 IN /\ runs' = [runs EXCEPT ![r].pc = turn.pc, ![r].wire = rest,
                                            ![r].lines = turn.lines]
                    /\ outputValue' = turn.out
                    /\ isRunning' = turn.running
  /\ UNCHANGED otherVars

\* scrollToBottom resolves: the for loop goes on with the next line
ScrollResumed ==
  /\ \E r \in 1..Len(runs) :
       /\ runs[r].pc = "scroll"
       /\ LET turn == ForLines(runs[r].lines, outputValue, isRunning)
          IN /\ runs' = [runs EXCEPT ![r].pc = turn.pc, ![r].lines = turn.lines]
             /\ outputValue' = turn.out
             /\ isRunning' = turn.running
  /\ UNCHANGED otherVars

\* Stop is clicked (the button is shown while isRunning)
StopScript ==
  /\ isRunning
  /\ isRunning' = FALSE
  /\ outputValue' = Append(outputValue, StopNotice)
  /\ UNCHANGED <<runs, otherVars>>

TermInit ==
  /\ BindIdle /\ ParseIdle /\ TermIdle /\ LogIdle /\ ServerIdle /\ PipelineIdle /\ RelayIdle
  /\ ConsumerIdle

TermNext ==
  \/ ExecuteScriptClick
  \/ FetchResolved
  \/ ReadResolved
  \/ ScrollResumed
  \/ StopScript

SpecTerm == TermInit /\ [][TermNext]_vars

\* The stop notice is displayed: Stop was clicked and Run was not since
StopNoticeShown == \E i \in 1..Len(outputValue) : outputValue[i] = StopNotice

\* The texts of the output messages of the server
ServerOutput == UNION {{RunText(k), ExitMessage(Num(0))} : k \in 1..MaxRuns}

\* C35: once stopScript has run while a script was running, and until the
\* next run is started, no output line of the server is appended to the
\* displayed output and the running flag stays false.
C35_NoOutputLineAfterStop ==
  [][(StopNoticeShown /\ Len(runs') = Len(runs))
       => /\ ~isRunning'
          /\ \A i \in 1..Len(outputValue') :
               outputValue'[i] \in ServerOutput => i <= Len(outputValue)]_vars

\* The runs whose printed line is displayed
RunsDisplayed ==
  {k \in 1..MaxRuns : \E i \in 1..Len(outputValue) : outputValue[i] = RunText(k)}

\* The calls of executeScript that are consuming a streamed response
Consuming == {r \in 1..Len(runs) : runs[r].pc \in {"read", "scroll"}}

\* C36: at most one streamed response is being consumed at any time, and
\* the displayed output never holds lines of two different runs.
C36_OneRunConsumedAndDisplayed ==
  /\ Cardinality(Consuming) <= 1
  /\ Cardinality(RunsDisplayed) <= 1

\* C37: when a run that was not stopped has read its whole response, the
\* displayed output is the text of the server's output messages, each once
\* and in order, however the transport split the bytes into reads.
C37_OutputMessagesDisplayedOnceInOrder ==
  (Len(runs) = 1 /\ runs[1].pc = "ended" /\ runs[1].wire = <<>> /\ ~StopNoticeShown
     /\ Len(outputValue) > 0 /\ outputValue[1] # ErrorLine(<<"Script not found">>))
    => outputValue = ResponseTexts(1)

====
